---- MODULE Spec2Model ----
(***************************************************************************)
(* Transaction / identity-verification lifecycle of the remittance         *)
(* backend: TransactionService, VerificationController, WebhookController, *)
(* RateUtils.  Every awaited persistence call of a handler is one step of  *)
(* the request that runs it; requests in flight interleave at those steps. *)
(***************************************************************************)
EXTENDS Integers, Sequences, FiniteSets, TLC

\* ---------------------------------------------------------------- bounds
MaxInFlight == 2
MaxTransactions == 2
MaxVerifications == 2
MaxTicks == 3

\* ------------------------------------------------------ program constants
HourMs == 60 * 60 * 1000
STALE_VERIFICATION_THRESHOLD == 24 * 60 * 60 * 1000
TickMs == 12 * HourMs

PENDING_INPUT == "pending_input"
AWAITING_CONFIRMATION == "awaiting_confirmation"
AWAITING_KYC_VERIFICATION == "awaiting_kyc_verification"
PROCESSING == "processing"
COMPLETED == "completed"
FAILED == "failed"
CANCELLED == "cancelled"
PENDING == "pending"

Users == {"u1", "u2"}
Currencies == {"NGN", "GHS"}
Amounts == {2}
Slots == 1..MaxInFlight

\* Provider result codes are strings of four digits.
finalSuccessCodes == {<<0, 0, 0, 0>>, <<0, 8, 1, 0>>}
intermediateSuccessCodes == {<<1, 0, 1, 2>>}
ResultCodes == {<<0, 0, 0, 0>>, <<0, 8, 1, 0>>, <<1, 0, 1, 2>>, <<0, 9, 1, 1>>, <<0, 8, 1, 2>>}
NoCode == <<>>

VARIABLES
    users,               \* user documents: isVerified, isKYCDone
    verifications,       \* verification documents, in insertion order
    transactions,        \* transaction documents, in insertion order
    transactionDetails,  \* transaction-detail documents, in insertion order
    exchangeRates,       \* exchange-rate documents
    bankAccounts,        \* bank-account documents
    forceVerify,         \* process.env.FORCE_VERIFY === "true"
    now,                 \* Date.now()
    req                  \* requests in flight: handler, position, locals

vars == <<users, verifications, transactions, transactionDetails,
          exchangeRates, bankAccounts, forceVerify, now, req>>

db == <<users, verifications, transactions, transactionDetails,
        exchangeRates, bankAccounts>>

Idle == [kind |-> "idle", pc |-> "idle"]

Min(S) == CHOOSE x \in S : \A y \in S : x <= y

\* A new request is served by the lowest free slot.
FreeSlot(s) == req[s].kind = "idle" /\ \A t \in Slots : t < s => req[t].kind # "idle"

InFlight(s) == req[s].kind # "idle" /\ req[s].pc # "done"

\* The response leaves and the request's frame is dropped.
Respond(s) ==
    /\ req[s].pc = "done"
    /\ req' = [req EXCEPT ![s] = Idle]
    /\ UNCHANGED <<db, forceVerify, now>>

\* ------------------------------------------------------------ persistence
\* Model.findOne(query) without a sort: the first matching document.
findOneVerification(user, status) ==
    LET S == {i \in DOMAIN verifications :
                 verifications[i].user = user /\ verifications[i].status = status}
    IN IF S = {} THEN 0 ELSE Min(S)

\* Model.findByIdAndUpdate(id, data): no document with that id, no change.
updateByIdVerification(id, status, reason) ==
    IF id \in DOMAIN verifications
    THEN [verifications EXCEPT ![id].status = status, ![id].reason = reason]
    ELSE verifications

updateByIdJobId(id, jobId) ==
    IF id \in DOMAIN verifications
    THEN [verifications EXCEPT ![id].jobId = jobId]
    ELSE verifications

updateByIdTransaction(id, status) ==
    IF id \in DOMAIN transactions
    THEN [transactions EXCEPT ![id].status = status]
    ELSE transactions

\* updateMany with the user dropped from the filter.
updateManyAnyUser(user) ==
    [i \in DOMAIN transactions |->
        IF transactions[i].status = AWAITING_KYC_VERIFICATION
        THEN [transactions[i] EXCEPT !.status = AWAITING_CONFIRMATION]
        ELSE transactions[i]]

\* updateMany that also sends the user's released transactions back.
updateManyToggle(user) ==
    [i \in DOMAIN transactions |->
        IF transactions[i].user = user /\ transactions[i].status = AWAITING_KYC_VERIFICATION
        THEN [transactions[i] EXCEPT !.status = AWAITING_CONFIRMATION]
        ELSE IF transactions[i].user = user /\ transactions[i].status = AWAITING_CONFIRMATION
        THEN [transactions[i] EXCEPT !.status = AWAITING_KYC_VERIFICATION]
        ELSE transactions[i]]

\* Model.updateMany({user, status: AWAITING_KYC_VERIFICATION},
\*                  {$set: {status: AWAITING_CONFIRMATION}})
updateMany(user) ==
    [i \in DOMAIN transactions |->
        IF transactions[i].user = user /\ transactions[i].status = AWAITING_KYC_VERIFICATION
        THEN [transactions[i] EXCEPT !.status = AWAITING_CONFIRMATION]
        ELSE transactions[i]]

\* ------------------------------------------------- WebhookController
\* A status reason: a fixed text, or a text that ends with a result code.
Reason(text, code) == [text |-> text, code |-> code]
NoReason == Reason("", NoCode)

\* String.prototype.includes(code) on a stored reason: none of the fixed
\* texts holds a digit, so only an embedded result code can match.
includes(reason, code) ==
    \E i \in 1..Len(reason.code) :
        i + Len(code) - 1 <= Len(reason.code)
        /\ SubSeq(reason.code, i, i + Len(code) - 1) = code

\* resultCode.startsWith("09")
startsWith09(code) == Len(code) >= 2 /\ code[1] = 0 /\ code[2] = 9

reasonMap(code) ==
    CASE code = <<0, 0, 0, 0>> -> Reason("Verification successful", NoCode)
      [] code = <<0, 8, 1, 0>> -> Reason("Enroll User - Verification successful", NoCode)
      [] code = <<1, 0, 1, 2>> -> Reason("ID Number Validated - Verification successful", NoCode)
      [] code = <<0, 9, 1, 1>> -> Reason("Images unusable - Anti-spoof check failed or poor image quality", NoCode)
      [] code = <<0, 8, 1, 2>> -> Reason("ID number not found in database", NoCode)
      [] code = <<0, 8, 1, 3>> -> Reason("ID information mismatch", NoCode)
      [] code = <<0, 8, 1, 4>> -> Reason("Selfie does not match ID photo", NoCode)
      [] code = <<0, 8, 1, 5>> -> Reason("Multiple identities detected", NoCode)
      [] code = <<0, 8, 1, 6>> -> Reason("ID number validation failed", NoCode)
      [] OTHER -> Reason("Verification failed with code: ", code)

\* The Actions object of a callback; "absent" is a missing key.
ActionMaps ==
    [Selfie_Check : {"Passed", "Failed"},
     Register_Selfie : {"Passed", "Rejected"},
     Verify_ID_Number : {"Verified", "Not Verified"}]
    \cup {[Selfie_Check |-> "absent", Register_Selfie |-> "absent", Verify_ID_Number |-> "absent"]}

getFailureReason(resultCode, actions) ==
    IF actions.Selfie_Check = "Failed"
    THEN Reason("Selfie verification failed - possible liveness/anti-spoof issue", NoCode)
    ELSE IF actions.Register_Selfie = "Rejected"
    THEN Reason("Selfie registration rejected - image quality issues", NoCode)
    ELSE IF actions.Verify_ID_Number = "Not Verified"
    THEN Reason("ID number could not be verified", NoCode)
    ELSE reasonMap(resultCode)

\* The request body of a callback.
Payloads ==
    [signature : {"absent", "forged", "genuine"},
     timestamp : {"absent", "present"},
     ResultCode : ResultCodes,
     IsFinalResult : BOOLEAN,
     Actions : ActionMaps,
     user_id : Users \cup {"absent"}]

\* verifySignature that confirms whatever it is given.
verifySignatureAny(signature, timestamp) == TRUE

\* SmileId.verifySignature hands the pair to the provider library's
\* confirm_signature, which is not part of the repository: "genuine" is a
\* signature the library confirms, "forged" one it does not.
verifySignature(signature, timestamp) == signature = "genuine"

\* The classification without the intermediate class.
isIntermediateSuccessCodeNever(p) == FALSE

isIntermediateSuccessCode(p) == p.ResultCode \in intermediateSuccessCodes
isFinalSuccessCode(p) == p.ResultCode \in finalSuccessCodes

isThisFinalResult(p) ==
    IF isIntermediateSuccessCode(p)
    THEN FALSE
    ELSE p.IsFinalResult \/ isFinalSuccessCode(p) \/ startsWith09(p.ResultCode)

criticalActionsPassed(actions) ==
    /\ actions.Verify_ID_Number \in {"Verified", "Passed"}
    /\ actions.Selfie_Check \in {"Passed", "Verified"}
    /\ actions.Register_Selfie \in {"Passed", "Verified"}

isVerified(p) ==
    IF forceVerify
    THEN TRUE
    ELSE IF isFinalSuccessCode(p) /\ isThisFinalResult(p)
    THEN criticalActionsPassed(p.Actions)
    ELSE FALSE

\* Line 142: PartnerParams?.job_id, the job the callback reports; 0 stands
\* for a payload without it.
jobIDOf(p) == IF "job_id" \in DOMAIN p THEN p.job_id ELSE 0

\* The frame of a callback; what the handler has not computed is blank.
\* subChecksPassed is what idVerificationStatus, selfieCheckStatus and
\* registerSelfieStatus (lines 68-70) say together.
CallbackFrame(p) ==
    [kind |-> "smileIdCallback", pc |-> "done", res |-> 0,
     signature |-> p.signature, timestamp |-> p.timestamp,
     resultCode |-> NoCode, isFinalResult |-> FALSE, userID |-> "absent",
     isVerified |-> FALSE, isThisFinalResult |-> FALSE, isFailedCode |-> FALSE,
     subChecksPassed |-> FALSE,
     failureReason |-> NoReason, pendingVerification |-> 0, emailed |-> FALSE,
     jobID |-> 0]

\* Lines 36-153: everything up to the first awaited query.
smileIdCallback(s, p) ==
    /\ FreeSlot(s)
    /\ req' = [req EXCEPT ![s] =
         IF p.signature = "absent" \/ p.timestamp = "absent"
         THEN [CallbackFrame(p) EXCEPT !.res = 400]
         ELSE IF ~verifySignature(p.signature, p.timestamp)
         THEN [CallbackFrame(p) EXCEPT !.res = 401]
         ELSE IF isIntermediateSuccessCode(p)
         THEN [CallbackFrame(p) EXCEPT !.res = 200, !.resultCode = p.ResultCode,
                                       !.isFinalResult = p.IsFinalResult]
         ELSE IF p.user_id = "absent"
         THEN [CallbackFrame(p) EXCEPT !.res = 400, !.resultCode = p.ResultCode,
                                       !.isFinalResult = p.IsFinalResult]
         ELSE [CallbackFrame(p) EXCEPT
                  !.pc = "findPending",
                  !.resultCode = p.ResultCode,
                  !.isFinalResult = p.IsFinalResult,
                  !.userID = p.user_id,
                  !.isVerified = isVerified(p),
                  !.isThisFinalResult = isThisFinalResult(p),
                  !.isFailedCode = startsWith09(p.ResultCode),
                  !.subChecksPassed = criticalActionsPassed(p.Actions),
                  !.jobID = jobIDOf(p),
                  !.failureReason = getFailureReason(p.ResultCode, p.Actions)]]
    /\ UNCHANGED <<db, forceVerify, now>>

\* Lines 176-189, run once the target record is known.
callbackAfterLookup(f, target) ==
    IF target = 0
    THEN [f EXCEPT !.pc = "done", !.res = 200]
    ELSE IF ~f.isThisFinalResult /\ ~f.isFailedCode
    THEN [f EXCEPT !.pc = "done", !.res = 200, !.pendingVerification = target]
    ELSE [f EXCEPT !.pc = "updateVerification", !.pendingVerification = target]

\* Line 153: findOne({user, status: 'pending'}).
callbackFindPending(s) ==
    /\ req[s].kind = "smileIdCallback" /\ req[s].pc = "findPending"
    /\ LET f == req[s]
           found == findOneVerification(f.userID, "pending")
       IN req' = [req EXCEPT ![s] =
            IF found = 0 /\ f.isVerified /\ f.isThisFinalResult
            THEN [f EXCEPT !.pc = "findFailed"]
            ELSE callbackAfterLookup(f, found)]
    /\ UNCHANGED <<db, forceVerify, now>>

\* Lines 161-172: findOne({user, status: 'failed'}) and the reason test.
callbackFindFailed(s) ==
    /\ req[s].kind = "smileIdCallback" /\ req[s].pc = "findFailed"
    /\ LET f == req[s]
           found == findOneVerification(f.userID, "failed")
           heals == /\ found # 0
                    /\ \/ includes(verifications[found].reason, <<1, 0, 1, 2>>)
                       \/ includes(verifications[found].reason, <<0, 8, 1, 0>>)
       IN req' = [req EXCEPT ![s] = callbackAfterLookup(f, IF heals THEN found ELSE 0)]
    /\ UNCHANGED <<db, forceVerify, now>>

\* Lines 191-198: updateById(pendingVerification.id, passed | failed+reason).
callbackUpdateVerification(s) ==
    /\ req[s].kind = "smileIdCallback" /\ req[s].pc = "updateVerification"
    /\ LET f == req[s] IN
       /\ verifications' =
            IF f.isVerified
            THEN IF f.pendingVerification \in DOMAIN verifications
                 THEN [verifications EXCEPT ![f.pendingVerification].status = "passed"]
                 ELSE verifications
            ELSE updateByIdVerification(f.pendingVerification, "failed", f.failureReason)
       /\ req' = [req EXCEPT ![s].pc = IF f.isVerified THEN "updateUser" ELSE "notify"]
    /\ UNCHANGED <<users, transactions, transactionDetails, exchangeRates,
                   bankAccounts, forceVerify, now>>

\* Lines 203-206: userService.updateById(userID, {isVerified, isKYCDone}).
callbackUpdateUser(s) ==
    /\ req[s].kind = "smileIdCallback" /\ req[s].pc = "updateUser"
    /\ users' = [users EXCEPT ![req[s].userID] = [isVerified |-> TRUE, isKYCDone |-> TRUE]]
    /\ req' = [req EXCEPT ![s].pc = "updateMany"]
    /\ UNCHANGED <<verifications, transactions, transactionDetails, exchangeRates,
                   bankAccounts, forceVerify, now>>

\* Lines 207-212: the bulk release of the user's waiting transactions.
callbackUpdateMany(s) ==
    /\ req[s].kind = "smileIdCallback" /\ req[s].pc = "updateMany"
    /\ transactions' = updateMany(req[s].userID)
    /\ req' = [req EXCEPT ![s].pc = "notify"]
    /\ UNCHANGED <<users, verifications, transactionDetails, exchangeRates,
                   bankAccounts, forceVerify, now>>

\* Lines 214-256: the result email (a failure is caught) and the 200.
callbackNotify(s) ==
    /\ req[s].kind = "smileIdCallback" /\ req[s].pc = "notify"
    /\ \E delivered \in BOOLEAN :
         req' = [req EXCEPT ![s].pc = "done", ![s].res = 200, ![s].emailed = delivered]
    /\ UNCHANGED <<db, forceVerify, now>>

\* ------------------------------------------------- VerificationController
ImageInputs == {"absent", "malformed", "wellformed"}
\* What the call to the identity provider does: it throws an error that
\* carries a message, throws one that carries none, answers without
\* success, or answers with success.
ProviderOutcomes == {"throws", "throwsBare", "unsuccessful", "success"}

\* error.message of an error the provider call threw.
ProviderMessage == Reason("<error.message>", NoCode)

\* Lines 51-74; res.locals.user is the user document the auth middleware read.
verifyUser(s, u, idNumber, images) ==
    /\ FreeSlot(s)
    /\ LET f == [kind |-> "verifyUser", pc |-> "findPending", res |-> "",
                 user |-> u, images |-> images,
                 existingPendingVerification |-> 0, verification |-> 0,
                 outcome |-> ""]
       IN req' = [req EXCEPT ![s] =
            IF users[u].isVerified
            THEN [f EXCEPT !.pc = "done", !.res = "RESOURCE_ALREADY_EXISTS"]
            ELSE IF ~idNumber \/ images = "absent"
            THEN [f EXCEPT !.pc = "done", !.res = "PAYLOAD_INCORRECT"]
            ELSE f]
    /\ UNCHANGED <<db, forceVerify, now>>

\* Lines 100-127: the image checks, which follow the staleness handling.
verifyUserValidate(f) ==
    IF f.images = "wellformed"
    THEN [f EXCEPT !.pc = "create"]
    ELSE [f EXCEPT !.pc = "done", !.res = "PAYLOAD_INCORRECT"]

\* The lookup without the staleness override.
verifyUserFindPendingNoOverride(s) ==
    /\ req[s].kind = "verifyUser" /\ req[s].pc = "findPending"
    /\ LET f == req[s]
           found == findOneVerification(f.user, "pending")
       IN req' = [req EXCEPT ![s] =
            IF found = 0
            THEN verifyUserValidate(f)
            ELSE [f EXCEPT !.pc = "done", !.res = "RESOURCE_ALREADY_EXISTS",
                           !.existingPendingVerification = found]]
    /\ UNCHANGED <<db, forceVerify, now>>

\* Lines 77-99: the lookup of a pending verification and its age.
verifyUserFindPending(s) ==
    /\ req[s].kind = "verifyUser" /\ req[s].pc = "findPending"
    /\ LET f == req[s]
           found == findOneVerification(f.user, "pending")
           verificationAge == now - verifications[found].createdAt
       IN req' = [req EXCEPT ![s] =
            IF found = 0
            THEN verifyUserValidate(f)
            ELSE IF verificationAge > STALE_VERIFICATION_THRESHOLD
            THEN [f EXCEPT !.pc = "expire", !.existingPendingVerification = found]
            ELSE [f EXCEPT !.pc = "done", !.res = "RESOURCE_ALREADY_EXISTS",
                           !.existingPendingVerification = found]]
    /\ UNCHANGED <<db, forceVerify, now>>

\* Lines 91-94: the stale verification is marked failed.
verifyUserExpire(s) ==
    /\ req[s].kind = "verifyUser" /\ req[s].pc = "expire"
    /\ verifications' = updateByIdVerification(req[s].existingPendingVerification, "failed",
                            Reason("Verification expired - please try again", NoCode))
    /\ req' = [req EXCEPT ![s] = verifyUserValidate(req[s])]
    /\ UNCHANGED <<users, transactions, transactionDetails, exchangeRates,
                   bankAccounts, forceVerify, now>>

\* Lines 129-132: verificationService.create({user, status: 'pending'}).
verifyUserCreate(s) ==
    /\ req[s].kind = "verifyUser" /\ req[s].pc = "create"
    /\ Len(verifications) < MaxVerifications
    /\ verifications' = Append(verifications,
            [user |-> req[s].user, status |-> "pending", reason |-> NoReason,
             createdAt |-> now, jobId |-> 0])
    /\ req' = [req EXCEPT ![s].pc = "submit", ![s].verification = Len(verifications) + 1]
    /\ UNCHANGED <<users, transactions, transactionDetails, exchangeRates,
                   bankAccounts, forceVerify, now>>

\* Lines 135-140: the call to the identity provider.
verifyUserSubmit(s) ==
    /\ req[s].kind = "verifyUser" /\ req[s].pc = "submit"
    /\ \E outcome \in ProviderOutcomes :
         req' = [req EXCEPT ![s].pc = "record", ![s].outcome = outcome]
    /\ UNCHANGED <<db, forceVerify, now>>

\* The write after the provider call with the clean-up of a thrown error left
\* out.
verifyUserRecordNoCleanup(s) ==
    /\ req[s].kind = "verifyUser" /\ req[s].pc = "record"
    /\ LET f == req[s] IN
       /\ verifications' =
            IF f.outcome = "unsuccessful"
            THEN updateByIdVerification(f.verification, "failed",
                     Reason("Smile ID API returned unsuccessful response", NoCode))
            ELSE IF f.outcome = "success"
            THEN updateByIdJobId(f.verification, f.verification)
            ELSE verifications
       /\ req' = [req EXCEPT ![s].pc = "done",
                             ![s].res = IF f.outcome = "success" THEN "ok"
                                        ELSE "UNABLE_TO_COMPLETE"]
    /\ UNCHANGED <<users, transactions, transactionDetails, exchangeRates,
                   bankAccounts, forceVerify, now>>

\* Lines 171-174, 212-215, 219-221: the write that follows the provider call;
\* on success it stores the job id the service generated for this submission
\* (a fresh UUID, here the number of the submission's Verification).  The
\* reason of a thrown error is error?.message || 'Failed to submit ...'.
verifyUserRecord(s) ==
    /\ req[s].kind = "verifyUser" /\ req[s].pc = "record"
    /\ LET f == req[s] IN
       /\ verifications' =
            CASE f.outcome = "throws" ->
                   updateByIdVerification(f.verification, "failed", ProviderMessage)
              [] f.outcome = "throwsBare" ->
                   updateByIdVerification(f.verification, "failed",
                       Reason("Failed to submit verification to Smile ID", NoCode))
              [] f.outcome = "unsuccessful" ->
                   updateByIdVerification(f.verification, "failed",
                       Reason("Smile ID API returned unsuccessful response", NoCode))
              [] OTHER -> updateByIdJobId(f.verification, f.verification)
       /\ req' = [req EXCEPT ![s].pc = "done",
                             ![s].res = IF f.outcome = "success" THEN "ok"
                                        ELSE "UNABLE_TO_COMPLETE"]
    /\ UNCHANGED <<users, transactions, transactionDetails, exchangeRates,
                   bankAccounts, forceVerify, now>>

\* Lines 257-264: cancelPendingVerification looks the pending record up.
cancelPendingVerification(s, u) ==
    /\ FreeSlot(s)
    /\ LET found == findOneVerification(u, "pending")
           f == [kind |-> "cancelPendingVerification", pc |-> "update", res |-> "",
                 user |-> u, pendingVerification |-> found]
       IN req' = [req EXCEPT ![s] =
            IF found = 0 THEN [f EXCEPT !.pc = "done", !.res = "NOT_FOUND"] ELSE f]
    /\ UNCHANGED <<db, forceVerify, now>>

\* The cancelling write applied to every pending Verification instead of the
\* one that was found.
cancelUpdateEveryPending(s) ==
    /\ req[s].kind = "cancelPendingVerification" /\ req[s].pc = "update"
    /\ verifications' =
         [i \in DOMAIN verifications |->
            IF verifications[i].status = "pending"
            THEN [verifications[i] EXCEPT
                     !.status = "failed",
                     !.reason = Reason("Verification cancelled by user", NoCode)]
            ELSE verifications[i]]
    /\ req' = [req EXCEPT ![s].pc = "done", ![s].res = "ok"]
    /\ UNCHANGED <<users, transactions, transactionDetails, exchangeRates,
                   bankAccounts, forceVerify, now>>

\* Lines 267-274.
cancelUpdate(s) ==
    /\ req[s].kind = "cancelPendingVerification" /\ req[s].pc = "update"
    /\ verifications' = updateByIdVerification(req[s].pendingVerification, "failed",
                            Reason("Verification cancelled by user", NoCode))
    /\ req' = [req EXCEPT ![s].pc = "done", ![s].res = "ok"]
    /\ UNCHANGED <<users, transactions, transactionDetails, exchangeRates,
                   bankAccounts, forceVerify, now>>

\* AuthController.verifyEmail: a valid token marks the user verified.
verifyEmail(u) ==
    /\ ~users[u].isVerified
    /\ users' = [users EXCEPT ![u].isVerified = TRUE]
    /\ UNCHANGED <<verifications, transactions, transactionDetails, exchangeRates,
                   bankAccounts, forceVerify, now, req>>

\* ------------------------------------------------------------- RateUtils
\* exchangeRateService.findOne({from, to}) and rate * amount; 0 stands for
\* the ResourceNotFound error.
convertAmount(fromCurrency, toCurrency, amount) ==
    LET rows == {r \in exchangeRates : r.from = fromCurrency /\ r.to = toCurrency}
    IN IF rows = {} THEN 0
       ELSE (CHOOSE r \in rows : \A o \in rows : r.id <= o.id).rate * amount

\* ---------------------------------------------------- TransactionService
\* TransactionSchema.pre('save')
preSave(t) ==
    IF t.status = COMPLETED
    THEN [t EXCEPT !.completedAt = TRUE, !.failedAt = FALSE]
    ELSE IF t.status = FAILED
    THEN [t EXCEPT !.failedAt = TRUE, !.completedAt = FALSE]
    ELSE IF t.status = PENDING \/ t.status = PROCESSING
    THEN [t EXCEPT !.completedAt = FALSE, !.failedAt = FALSE]
    ELSE t

\* transactionDetailsService.update({transactionId}, data): updateOne on the
\* first matching document.
detailsOf(transactionId) ==
    LET S == {i \in DOMAIN transactionDetails :
                 transactionDetails[i].transactionId = transactionId}
    IN IF S = {} THEN 0 ELSE Min(S)

\* createAlipayTransaction that stores the transaction before the QR code.
createAlipayTransactionWriteFirst(s, u, fromCurrency, amount, hasPlatform) ==
    /\ FreeSlot(s)
    /\ Len(transactions) < MaxTransactions
    /\ transactions' = Append(transactions,
            [user |-> u, status |-> PENDING_INPUT, fromCurrency |-> fromCurrency,
             amount |-> amount, completedAt |-> FALSE, failedAt |-> FALSE])
    /\ req' = [req EXCEPT ![s] =
            [kind |-> "createAlipayTransaction", pc |-> "done", res |-> "UNABLE_TO_COMPLETE",
             user |-> u, fromCurrency |-> fromCurrency, amount |-> amount,
             hasPlatform |-> hasPlatform,
             bankAccountDetails |-> 0, transaction |-> 0, notified |-> FALSE]]
    /\ UNCHANGED <<users, verifications, transactionDetails, exchangeRates,
                   bankAccounts, forceVerify, now>>

\* Lines 48-62: the default bank account and the QR-code upload.  The request
\* validator leaves platform optional; hasPlatform says whether the body
\* names one.
createAlipayTransaction(s, u, fromCurrency, amount, hasPlatform) ==
    /\ FreeSlot(s)
    /\ \E uploaded \in BOOLEAN :
         LET banks == {b \in bankAccounts : b.isDefault /\ b.currency = fromCurrency}
             f == [kind |-> "createAlipayTransaction", pc |-> "create", res |-> "",
                   user |-> u, fromCurrency |-> fromCurrency, amount |-> amount,
                   hasPlatform |-> hasPlatform,
                   bankAccountDetails |-> 0, transaction |-> 0, notified |-> FALSE]
         IN req' = [req EXCEPT ![s] =
              IF banks = {}
              THEN [f EXCEPT !.pc = "done", !.res = "NOT_FOUND"]
              ELSE IF ~uploaded
              THEN [f EXCEPT !.pc = "done", !.res = "UNABLE_TO_COMPLETE"]
              ELSE [f EXCEPT !.bankAccountDetails = Min({b.id : b \in banks})]]
    /\ UNCHANGED <<db, forceVerify, now>>

\* Lines 64-73: the Transaction document.
createTransaction(s) ==
    /\ req[s].kind = "createAlipayTransaction" /\ req[s].pc = "create"
    /\ Len(transactions) < MaxTransactions
    /\ transactions' = Append(transactions,
            preSave([user |-> req[s].user, status |-> PENDING_INPUT,
                     fromCurrency |-> req[s].fromCurrency, amount |-> req[s].amount,
                     completedAt |-> FALSE, failedAt |-> FALSE]))
    /\ req' = [req EXCEPT ![s].pc = "createDetails", ![s].transaction = Len(transactions) + 1]
    /\ UNCHANGED <<users, verifications, transactionDetails, exchangeRates,
                   bankAccounts, forceVerify, now>>

\* Lines 75-83: the TransactionDetail document.  TransactionDetailSchema
\* requires platform for type 'alipay': without one the create throws a
\* validation error, which the controller hands to the caller.
createTransactionDetails(s) ==
    /\ req[s].kind = "createAlipayTransaction" /\ req[s].pc = "createDetails"
    /\ IF req[s].hasPlatform
       THEN /\ transactionDetails' = Append(transactionDetails,
                    [transactionId |-> req[s].transaction,
                     bankAccountDetails |-> req[s].bankAccountDetails,
                     payInReceiptUrl |-> FALSE, payOutReceiptUrl |-> FALSE,
                     fromAmount |-> 0])
            /\ req' = [req EXCEPT ![s].pc = "notify"]
       ELSE /\ transactionDetails' = transactionDetails
            /\ req' = [req EXCEPT ![s].pc = "done", ![s].res = "VALIDATION_ERROR"]
    /\ UNCHANGED <<users, verifications, transactions, exchangeRates,
                   bankAccounts, forceVerify, now>>

\* Lines 85-119: the 'payment_initiated' notification; a failure of findById
\* or of the send is caught and logged, and the transaction is returned.
createNotify(s) ==
    /\ req[s].kind = "createAlipayTransaction" /\ req[s].pc = "notify"
    /\ \E notified \in BOOLEAN :
         req' = [req EXCEPT ![s].pc = "done", ![s].res = "ok", ![s].notified = notified]
    /\ UNCHANGED <<db, forceVerify, now>>

\* TransactionController.uploadUserPaymentReceipt and lines 122-131 of the
\* service: isKycDone is res.locals.user.isVerified of the caller u.
uploadUserPaymentReceipt(s, u, transactionId) ==
    /\ FreeSlot(s)
    /\ \E uploaded \in BOOLEAN :
         LET f == [kind |-> "uploadUserPaymentReceipt", pc |-> "convert", res |-> "",
                   transactionId |-> transactionId, isKycDone |-> users[u].isVerified,
                   fromAmount |-> 0, transaction |-> <<>>]
         IN req' = [req EXCEPT ![s] =
              IF uploaded THEN f ELSE [f EXCEPT !.pc = "done", !.res = "UNABLE_TO_COMPLETE"]]
    /\ UNCHANGED <<db, forceVerify, now>>

\* Lines 132-133: findById and RateUtils.convertAmount to RMB.  The handler
\* keeps the document it read (with its details) in `transaction`.
userReceiptConvert(s) ==
    /\ req[s].kind = "uploadUserPaymentReceipt" /\ req[s].pc = "convert"
    /\ LET id == req[s].transactionId
           fromAmount == IF id \in DOMAIN transactions
                         THEN convertAmount(transactions[id].fromCurrency, "RMB",
                                            transactions[id].amount)
                         ELSE 0
           transaction == IF id \in DOMAIN transactions
                          THEN <<transactions[id],
                                 IF detailsOf(id) = 0 THEN {}
                                 ELSE {transactionDetails[detailsOf(id)]}>>
                          ELSE <<>>
       IN req' = [req EXCEPT ![s] =
            IF fromAmount = 0
            THEN [req[s] EXCEPT !.pc = "done", !.res = "NOT_FOUND",
                                !.transaction = transaction]
            ELSE [req[s] EXCEPT !.pc = "updateDetails", !.fromAmount = fromAmount,
                                !.transaction = transaction]]
    /\ UNCHANGED <<db, forceVerify, now>>

\* Line 134.
userReceiptUpdateDetails(s) ==
    /\ req[s].kind = "uploadUserPaymentReceipt" /\ req[s].pc = "updateDetails"
    /\ LET d == detailsOf(req[s].transactionId)
       IN transactionDetails' =
            IF d = 0 THEN transactionDetails
            ELSE [transactionDetails EXCEPT ![d].payInReceiptUrl = TRUE,
                                            ![d].fromAmount = req[s].fromAmount]
    /\ req' = [req EXCEPT ![s].pc = "updateStatus"]
    /\ UNCHANGED <<users, verifications, transactions, exchangeRates,
                   bankAccounts, forceVerify, now>>

\* Line 135 with the two statuses exchanged.
userReceiptUpdateStatusSwapped(s) ==
    /\ req[s].kind = "uploadUserPaymentReceipt" /\ req[s].pc = "updateStatus"
    /\ transactions' = updateByIdTransaction(req[s].transactionId,
            IF req[s].isKycDone THEN AWAITING_KYC_VERIFICATION ELSE AWAITING_CONFIRMATION)
    /\ req' = [req EXCEPT ![s].pc = "notify"]
    /\ UNCHANGED <<users, verifications, transactionDetails, exchangeRates,
                   bankAccounts, forceVerify, now>>

\* Line 135.
userReceiptUpdateStatus(s) ==
    /\ req[s].kind = "uploadUserPaymentReceipt" /\ req[s].pc = "updateStatus"
    /\ transactions' = updateByIdTransaction(req[s].transactionId,
            IF req[s].isKycDone THEN AWAITING_CONFIRMATION ELSE AWAITING_KYC_VERIFICATION)
    /\ req' = [req EXCEPT ![s].pc = "notify"]
    /\ UNCHANGED <<users, verifications, transactionDetails, exchangeRates,
                   bankAccounts, forceVerify, now>>

\* Lines 137-169: the attachments are downloaded, then notifyAdmins runs; a
\* failed download is not caught.
userReceiptNotify(s) ==
    /\ req[s].kind = "uploadUserPaymentReceipt" /\ req[s].pc = "notify"
    /\ \E downloaded \in BOOLEAN :
         req' = [req EXCEPT ![s].pc = "done",
                            ![s].res = IF downloaded THEN "ok" ELSE "INTERNAL_ERROR"]
    /\ UNCHANGED <<db, forceVerify, now>>

\* Lines 202-212: the upload of the operator's receipt and findById.
uploadAdminPaymentReceipt(s, transactionId) ==
    /\ FreeSlot(s)
    /\ \E uploaded \in BOOLEAN :
         LET f == [kind |-> "uploadAdminPaymentReceipt", pc |-> "updateDetails", res |-> "",
                   transactionId |-> transactionId, notified |-> FALSE]
         IN req' = [req EXCEPT ![s] =
              IF uploaded THEN f ELSE [f EXCEPT !.pc = "done", !.res = "UNABLE_TO_COMPLETE"]]
    /\ UNCHANGED <<db, forceVerify, now>>

\* Line 213.
adminReceiptUpdateDetails(s) ==
    /\ req[s].kind = "uploadAdminPaymentReceipt" /\ req[s].pc = "updateDetails"
    /\ LET d == detailsOf(req[s].transactionId)
       IN transactionDetails' =
            IF d = 0 THEN transactionDetails
            ELSE [transactionDetails EXCEPT ![d].payOutReceiptUrl = TRUE]
    /\ req' = [req EXCEPT ![s].pc = "updateStatus"]
    /\ UNCHANGED <<users, verifications, transactions, exchangeRates,
                   bankAccounts, forceVerify, now>>

\* Line 214.
adminReceiptUpdateStatus(s) ==
    /\ req[s].kind = "uploadAdminPaymentReceipt" /\ req[s].pc = "updateStatus"
    /\ transactions' = updateByIdTransaction(req[s].transactionId, COMPLETED)
    /\ req' = [req EXCEPT ![s].pc = "notify"]
    /\ UNCHANGED <<users, verifications, transactionDetails, exchangeRates,
                   bankAccounts, forceVerify, now>>

\* The 'payment_completed' step with a failed notification passed on to the
\* caller.
adminReceiptNotifyFatal(s) ==
    /\ req[s].kind = "uploadAdminPaymentReceipt" /\ req[s].pc = "notify"
    /\ \E notified \in BOOLEAN :
         req' = [req EXCEPT ![s].pc = "done",
                            ![s].res = IF notified THEN "ok" ELSE "INTERNAL_ERROR",
                            ![s].notified = notified /\ req[s].transactionId \in DOMAIN transactions]
    /\ UNCHANGED <<db, forceVerify, now>>

\* Lines 216-256: the 'payment_completed' notification; the download of the
\* receipt attachment and the send are inside the try, a failure of either is
\* caught and logged.  Without a transaction there is no user to notify.
adminReceiptNotify(s) ==
    /\ req[s].kind = "uploadAdminPaymentReceipt" /\ req[s].pc = "notify"
    /\ \E notified \in BOOLEAN :
         req' = [req EXCEPT ![s].pc = "done", ![s].res = "ok",
                            ![s].notified = notified /\ req[s].transactionId \in DOMAIN transactions]
    /\ UNCHANGED <<db, forceVerify, now>>

\* Clock of the process.
Tick ==
    /\ now < MaxTicks * TickMs
    /\ now' = now + TickMs
    /\ UNCHANGED <<db, forceVerify, req>>

\* ------------------------------------------------------------ the system
Init ==
    /\ users = [u \in Users |-> [isVerified |-> FALSE, isKYCDone |-> FALSE]]
    /\ verifications = <<>>
    /\ transactions = <<>>
    /\ transactionDetails = <<>>
    /\ exchangeRates = {[id |-> 1, from |-> "NGN", to |-> "RMB", rate |-> 3, isActive |-> TRUE]}
    /\ bankAccounts = {[id |-> 1, currency |-> "NGN", isDefault |-> TRUE],
                       [id |-> 2, currency |-> "GHS", isDefault |-> TRUE]}
    /\ forceVerify \in BOOLEAN
    /\ now = 0
    /\ req = [s \in Slots |-> Idle]

\* The transaction ids a caller can name; 0 is an id of no document.
TransactionIds == 0..Len(transactions)

Step(s) ==
    \/ \E p \in Payloads : smileIdCallback(s, p)
    \/ callbackFindPending(s)
    \/ callbackFindFailed(s)
    \/ callbackUpdateVerification(s)
    \/ callbackUpdateUser(s)
    \/ callbackUpdateMany(s)
    \/ callbackNotify(s)
    \/ \E u \in Users, idNumber \in BOOLEAN, images \in ImageInputs :
           verifyUser(s, u, idNumber, images)
    \/ verifyUserFindPending(s)
    \/ verifyUserExpire(s)
    \/ verifyUserCreate(s)
    \/ verifyUserSubmit(s)
    \/ verifyUserRecord(s)
    \/ \E u \in Users : cancelPendingVerification(s, u)
    \/ cancelUpdate(s)
    \/ \E u \in Users, c \in Currencies, a \in Amounts, hasPlatform \in BOOLEAN :
           createAlipayTransaction(s, u, c, a, hasPlatform)
    \/ createTransaction(s)
    \/ createTransactionDetails(s)
    \/ createNotify(s)
    \/ \E u \in Users, id \in TransactionIds : uploadUserPaymentReceipt(s, u, id)
    \/ userReceiptConvert(s)
    \/ userReceiptUpdateDetails(s)
    \/ userReceiptUpdateStatus(s)
    \/ userReceiptNotify(s)
    \/ \E id \in TransactionIds : uploadAdminPaymentReceipt(s, id)
    \/ adminReceiptUpdateDetails(s)
    \/ adminReceiptUpdateStatus(s)
    \/ adminReceiptNotify(s)
    \/ Respond(s)

Next ==
    \/ \E s \in Slots : Step(s)
    \/ \E u \in Users : verifyEmail(u)
    \/ Tick

\* The whole system, every request interleaved with every other.
Spec == Init /\ [][Next]_vars

\* No request is being served.
Quiet == \A s \in Slots : req[s].kind = "idle"

\* Callbacks of a completed, successful provider job.
ReleasePayloads ==
    {p \in Payloads :
        /\ p.signature = "genuine" /\ p.timestamp = "present"
        /\ p.ResultCode \in finalSuccessCodes
        /\ criticalActionsPassed(p.Actions)
        /\ p.user_id \in Users}

\* ---- the transaction lifecycle, one request served at a time
InitTransactions == Init /\ forceVerify = FALSE

NextTransactions ==
    \/ Quiet /\ \E u \in Users, c \in Currencies, a \in Amounts :
                    createAlipayTransaction(1, u, c, a, TRUE)
    \/ \E s \in Slots : createTransaction(s)
    \/ \E s \in Slots : createTransactionDetails(s)
    \/ \E s \in Slots : createNotify(s)
    \/ Quiet /\ \E u \in Users, id \in TransactionIds : uploadUserPaymentReceipt(1, u, id)
    \/ \E s \in Slots : userReceiptConvert(s)
    \/ \E s \in Slots : userReceiptUpdateDetails(s)
    \/ \E s \in Slots : userReceiptUpdateStatus(s)
    \/ \E s \in Slots : userReceiptNotify(s)
    \/ Quiet /\ \E id \in TransactionIds : uploadAdminPaymentReceipt(1, id)
    \/ \E s \in Slots : adminReceiptUpdateDetails(s)
    \/ \E s \in Slots : adminReceiptUpdateStatus(s)
    \/ \E s \in Slots : adminReceiptNotify(s)
    \/ Quiet /\ \E u \in Users : verifyUser(1, u, TRUE, "wellformed")
    \/ \E s \in Slots : verifyUserFindPending(s)
    \/ \E s \in Slots : verifyUserCreate(s)
    \/ \E s \in Slots : verifyUserSubmit(s)
    \/ \E s \in Slots : verifyUserRecord(s)
    \/ Quiet /\ \E p \in ReleasePayloads : smileIdCallback(1, p)
    \/ \E s \in Slots : callbackFindPending(s)
    \/ \E s \in Slots : callbackFindFailed(s)
    \/ \E s \in Slots : callbackUpdateVerification(s)
    \/ \E s \in Slots : callbackUpdateUser(s)
    \/ \E s \in Slots : callbackUpdateMany(s)
    \/ \E s \in Slots : callbackNotify(s)
    \/ \E s \in Slots : Respond(s)

SpecTransactions == InitTransactions /\ [][NextTransactions]_vars

\* ---- callbacks and submissions, one request served at a time, over
\* transactions that receipts have been uploaded for
Transaction(user, status) ==
    [user |-> user, status |-> status, fromCurrency |-> "NGN", amount |-> 2,
     completedAt |-> FALSE, failedAt |-> FALSE]

TransactionDetail(transactionId, paidIn, paidOut) ==
    [transactionId |-> transactionId, bankAccountDetails |-> 1,
     payInReceiptUrl |-> paidIn, payOutReceiptUrl |-> paidOut,
     fromAmount |-> IF paidIn THEN 6 ELSE 0]

InitCallback ==
    /\ users = [u \in Users |-> [isVerified |-> FALSE, isKYCDone |-> FALSE]]
    /\ verifications = <<>>
    /\ transactions = <<Transaction("u1", AWAITING_KYC_VERIFICATION),
                        Transaction("u2", AWAITING_KYC_VERIFICATION),
                        Transaction("u1", PENDING_INPUT),
                        Transaction("u2", COMPLETED),
                        Transaction("u1", AWAITING_KYC_VERIFICATION)>>
    /\ transactionDetails = <<TransactionDetail(1, TRUE, FALSE),
                              TransactionDetail(2, TRUE, FALSE),
                              TransactionDetail(3, FALSE, FALSE),
                              TransactionDetail(4, TRUE, TRUE),
                              TransactionDetail(5, TRUE, FALSE)>>
    /\ exchangeRates = {[id |-> 1, from |-> "NGN", to |-> "RMB", rate |-> 3, isActive |-> TRUE]}
    /\ bankAccounts = {[id |-> 1, currency |-> "NGN", isDefault |-> TRUE],
                       [id |-> 2, currency |-> "GHS", isDefault |-> TRUE]}
    /\ forceVerify \in BOOLEAN
    /\ now = 0
    /\ req = [s \in Slots |-> Idle]

NextCallback ==
    \/ Quiet /\ \E p \in Payloads : smileIdCallback(1, p)
    \/ \E s \in Slots : callbackFindPending(s)
    \/ \E s \in Slots : callbackFindFailed(s)
    \/ \E s \in Slots : callbackUpdateVerification(s)
    \/ \E s \in Slots : callbackUpdateUser(s)
    \/ \E s \in Slots : callbackUpdateMany(s)
    \/ \E s \in Slots : callbackNotify(s)
    \/ Quiet /\ \E u \in Users, idNumber \in BOOLEAN, images \in ImageInputs :
                    verifyUser(1, u, idNumber, images)
    \/ \E s \in Slots : verifyUserFindPending(s)
    \/ \E s \in Slots : verifyUserCreate(s)
    \/ \E s \in Slots : verifyUserSubmit(s)
    \/ \E s \in Slots : verifyUserRecord(s)
    \/ Quiet /\ \E u \in Users : cancelPendingVerification(1, u)
    \/ \E s \in Slots : cancelUpdate(s)
    \/ \E s \in Slots : Respond(s)

SpecCallback == InitCallback /\ [][NextCallback]_vars

\* ---- submissions and the staleness override, one request served at a time
InitSubmit == Init /\ forceVerify = FALSE

NextSubmit ==
    \/ Quiet /\ \E u \in Users, idNumber \in BOOLEAN, images \in ImageInputs :
                    verifyUser(1, u, idNumber, images)
    \/ \E s \in Slots : verifyUserFindPending(s)
    \/ \E s \in Slots : verifyUserExpire(s)
    \/ \E s \in Slots : verifyUserCreate(s)
    \/ \E s \in Slots : verifyUserSubmit(s)
    \/ \E s \in Slots : verifyUserRecord(s)
    \/ Quiet /\ \E u \in Users : cancelPendingVerification(1, u)
    \/ \E s \in Slots : cancelUpdate(s)
    \/ \E s \in Slots : Respond(s)
    \/ Tick

SpecSubmit == InitSubmit /\ [][NextSubmit]_vars

\* ---- submissions, cancellations and callbacks of one user, interleaved
RaceUsers == {"u1"}

RacePayloads ==
    {p \in Payloads :
        /\ p.signature = "genuine" /\ p.timestamp = "present"
        /\ p.ResultCode \in {<<0, 8, 1, 0>>, <<0, 9, 1, 1>>}
        /\ p.IsFinalResult
        /\ p.user_id \in RaceUsers}

InitRace == InitCallback /\ forceVerify = FALSE

NextRace ==
    \/ \E s \in Slots, p \in RacePayloads : smileIdCallback(s, p)
    \/ \E s \in Slots : callbackFindPending(s)
    \/ \E s \in Slots : callbackFindFailed(s)
    \/ \E s \in Slots : callbackUpdateVerification(s)
    \/ \E s \in Slots : callbackUpdateUser(s)
    \/ \E s \in Slots : callbackUpdateMany(s)
    \/ \E s \in Slots : callbackNotify(s)
    \/ \E s \in Slots, u \in RaceUsers : verifyUser(s, u, TRUE, "wellformed")
    \/ \E s \in Slots : verifyUserFindPending(s)
    \/ \E s \in Slots : verifyUserCreate(s)
    \/ \E s \in Slots : verifyUserSubmit(s)
    \/ \E s \in Slots : verifyUserRecord(s)
    \/ \E s \in Slots, u \in RaceUsers : cancelPendingVerification(s, u)
    \/ \E s \in Slots : cancelUpdate(s)
    \/ \E s \in Slots : Respond(s)

SpecRace == InitRace /\ [][NextRace]_vars

\* ------------------------------------------------------------ the claims
TerminalStatuses == {COMPLETED, FAILED, CANCELLED}

\* The status graph of the transaction state machine, the bulk release
\* included.
StatusGraph ==
    {<<PENDING_INPUT, AWAITING_KYC_VERIFICATION>>,
     <<PENDING_INPUT, AWAITING_CONFIRMATION>>,
     <<AWAITING_KYC_VERIFICATION, AWAITING_CONFIRMATION>>,
     <<AWAITING_KYC_VERIFICATION, PROCESSING>>,
     <<AWAITING_CONFIRMATION, PROCESSING>>,
     <<PROCESSING, COMPLETED>>}
    \cup {<<a, b>> : a \in {PENDING_INPUT, AWAITING_KYC_VERIFICATION,
                            AWAITING_CONFIRMATION, PROCESSING},
                     b \in {FAILED, CANCELLED}}

\* C1: every change of a transaction's status follows an edge of the status
\* graph PENDING_INPUT -> {AWAITING_KYC_VERIFICATION | AWAITING_CONFIRMATION}
\* -> PROCESSING -> COMPLETED; no change skips a required predecessor.
C1_StatusFollowsGraph ==
    [][\A i \in DOMAIN transactions :
          transactions'[i].status # transactions[i].status
          => <<transactions[i].status, transactions'[i].status>> \in StatusGraph]_vars

\* C2: a transaction whose status is COMPLETED, FAILED or CANCELLED keeps
\* that status.
C2_TerminalAbsorbing ==
    [][\A i \in DOMAIN transactions :
          transactions[i].status \in TerminalStatuses
          => transactions'[i].status = transactions[i].status]_vars

\* The receipt upload of request s has written its status and has not failed.
UserReceiptSucceeded(s) ==
    /\ req[s].kind = "uploadUserPaymentReceipt"
    /\ \/ req[s].pc = "notify"
       \/ req[s].pc = "done" /\ req[s].res = "ok"

\* C7: a successful recordUserReceipt leaves the transaction in
\* AWAITING_KYC_VERIFICATION when isUserKycDone is false and in
\* AWAITING_CONFIRMATION when it is true.
C7_ReceiptStatus ==
    \A s \in Slots :
        UserReceiptSucceeded(s)
        => /\ req[s].transactionId \in DOMAIN transactions
           /\ transactions[req[s].transactionId].status =
                 IF req[s].isKycDone THEN AWAITING_CONFIRMATION
                 ELSE AWAITING_KYC_VERIFICATION

\* A verified caller's upload has succeeded while another transaction, left
\* by an unverified caller's upload, still waits for the identity check.
C7_Witness ==
    \E s \in Slots :
        /\ UserReceiptSucceeded(s)
        /\ req[s].pc = "done"
        /\ req[s].isKycDone
        /\ transactions[req[s].transactionId].status = AWAITING_CONFIRMATION
        /\ \E i \in DOMAIN transactions :
              transactions[i].status = AWAITING_KYC_VERIFICATION

\* ---- C3, C4: interleaved requests
PendingOf(u) ==
    {i \in DOMAIN verifications :
        verifications[i].user = u /\ verifications[i].status = "pending"}

\* A final-success delivery whose sub-checks passed, past its signature check.
QualifyingCallback(f) ==
    /\ f.kind = "smileIdCallback"
    /\ f.resultCode \in finalSuccessCodes
    /\ f.isVerified

\* The delivery has written the terminal status of its target.
Applied(f) ==
    /\ f.pendingVerification # 0
    /\ f.pc \in {"updateUser", "updateMany", "notify", "done"}

\* C3: of two deliveries of the same final-success event for one pending
\* Verification, only one applies the terminal transition and only one sends
\* the result notification.
C3_OneDeliveryApplies ==
    \A s, t \in Slots :
        ( /\ s # t
          /\ QualifyingCallback(req[s]) /\ QualifyingCallback(req[t])
          /\ req[s].userID = req[t].userID
          /\ req[s].pendingVerification = req[t].pendingVerification )
        => /\ ~(Applied(req[s]) /\ Applied(req[t]))
           /\ ~(req[s].emailed /\ req[t].emailed)

\* C4: each user has at most one Verification with status pending.
C4_AtMostOnePending ==
    \A u \in Users : Cardinality(PendingOf(u)) <= 1

\* ---- C5: the effect of a qualifying final-success callback
WaitingOf(u) ==
    {i \in DOMAIN transactions :
        transactions[i].user = u /\ transactions[i].status = AWAITING_KYC_VERIFICATION}

C5_Steps ==
    \A s \in Slots :
        QualifyingCallback(req[s]) /\ req'[s] # req[s]
        => LET f == req[s]
               g == req'[s]
               u == f.userID
           IN /\ f.pc = "findPending" /\ PendingOf(u) # {}
                    => g.pc = "updateVerification" /\ g.pendingVerification \in PendingOf(u)
              /\ f.pc = "updateMany"
                    => \A i \in DOMAIN transactions :
                          transactions'[i] =
                             IF i \in WaitingOf(u)
                             THEN [transactions[i] EXCEPT !.status = AWAITING_CONFIRMATION]
                             ELSE transactions[i]
              /\ f.pc # "updateMany" => transactions' = transactions

C5_Done ==
    \A s \in Slots :
        QualifyingCallback(req[s]) /\ req[s].pc = "done" /\ req[s].pendingVerification # 0
        => /\ verifications[req[s].pendingVerification].status = "passed"
           /\ users[req[s].userID].isVerified
           /\ users[req[s].userID].isKYCDone
           /\ WaitingOf(req[s].userID) = {}

\* C5: a signature-valid final-success callback with all sub-checks passed,
\* for a user with a pending Verification, sets that Verification to passed,
\* marks the user verified, moves every AWAITING_KYC_VERIFICATION transaction
\* of the user to AWAITING_CONFIRMATION and changes no other transaction.
C5_FinalSuccessReleases == [][C5_Steps]_vars /\ []C5_Done

\* The callback for u1 is done: u1's waiting transactions are released, the
\* waiting transaction of u2 is where it was.
C5_Witness ==
    \E s \in Slots :
        /\ QualifyingCallback(req[s]) /\ req[s].pc = "done"
        /\ req[s].userID = "u1"
        /\ req[s].pendingVerification # 0
        /\ verifications[req[s].pendingVerification].status = "passed"
        /\ transactions[1].status = AWAITING_CONFIRMATION
        /\ transactions[5].status = AWAITING_CONFIRMATION
        /\ transactions[2].status = AWAITING_KYC_VERIFICATION
        /\ transactions[3].status = PENDING_INPUT

\* ---- C6
\* C6: the bulk release is idempotent: once applied for a user it leaves no
\* transaction of that user to release, and applied again it changes no
\* transaction.
C6_ReleaseIdempotent ==
    [][\A s \in Slots :
          ( /\ req[s].kind = "smileIdCallback"
            /\ req[s].pc = "updateMany"
            /\ req'[s].pc = "notify" )
          => LET u == req[s].userID
             IN /\ \A i \in DOMAIN transactions' :
                      ~(transactions'[i].user = u
                        /\ transactions'[i].status = AWAITING_KYC_VERIFICATION)
                /\ WaitingOf(u) = {} => transactions' = transactions]_vars

\* Two deliveries for one user are both past the bulk release.
C6_Witness ==
    \E s, t \in Slots :
        /\ s # t
        /\ QualifyingCallback(req[s]) /\ QualifyingCallback(req[t])
        /\ req[s].userID = req[t].userID
        /\ req[s].pc \in {"notify", "done"} /\ req[s].pendingVerification # 0
        /\ req[t].pc \in {"notify", "done"} /\ req[t].pendingVerification # 0
        /\ \E i \in DOMAIN transactions :
              /\ transactions[i].user = req[s].userID
              /\ transactions[i].status = AWAITING_CONFIRMATION

\* ---- C8: the staleness override of a submission
ExpiredReason == Reason("Verification expired - please try again", NoCode)

\* A submission that passes the checks of its input.
ValidSubmission(f) == f.kind = "verifyUser" /\ f.images = "wellformed"

C8_Steps ==
    \A s \in Slots :
        ( /\ req[s].kind = "verifyUser"
          /\ req[s].pc = "findPending"
          /\ req'[s] # req[s]
          /\ PendingOf(req[s].user) # {} )
        => LET f == req[s]
               g == req'[s]
               e == Min(PendingOf(f.user))
               age == now - verifications[e].createdAt
           IN /\ age < 24 * HourMs
                    => /\ g.pc = "done" /\ g.res = "RESOURCE_ALREADY_EXISTS"
                       /\ verifications' = verifications
              /\ age > 24 * HourMs
                    => g.pc = "expire" /\ g.existingPendingVerification = e

C8_Done ==
    \A s \in Slots :
        req[s].kind = "verifyUser" /\ req[s].existingPendingVerification # 0
        => LET f == req[s]
               e == f.existingPendingVerification
           IN /\ f.pc = "done" /\ f.res = "RESOURCE_ALREADY_EXISTS"
                    => f.verification = 0 /\ verifications[e].status = "pending"
              /\ f.pc \in {"create", "submit", "record"}
                    => /\ verifications[e].status = "failed"
                       /\ verifications[e].reason = ExpiredReason
                       /\ ValidSubmission(f)
              /\ f.pc = "submit"
                    => /\ f.verification \in DOMAIN verifications
                       /\ f.verification # e
                       /\ verifications[f.verification].user = f.user
                       /\ verifications[f.verification].status = "pending"

\* C8: a submission by a user whose pending Verification is younger than 24
\* hours is rejected with ResourceAlreadyExists, creates nothing and leaves
\* that Verification pending; a valid submission by a user whose pending
\* Verification is older than 24 hours sets it to failed (expired) and
\* creates a new pending Verification.
C8_StalenessOverride == [][C8_Steps]_vars /\ []C8_Done

\* A stale Verification has been expired and its successor just created.
C8_Witness ==
    \E s \in Slots :
        /\ req[s].kind = "verifyUser" /\ req[s].pc = "submit"
        /\ req[s].existingPendingVerification # 0
        /\ verifications[req[s].existingPendingVerification].reason = ExpiredReason
        /\ verifications[req[s].verification].status = "pending"

\* ---- C9, C10: callbacks that must change nothing
Arrives(s) == req[s].kind = "idle" /\ req'[s].kind = "smileIdCallback"

BadSignature(f) ==
    /\ f.kind = "smileIdCallback"
    /\ (f.signature = "absent" \/ f.timestamp = "absent" \/ f.signature = "forged")

\* C9: a callback whose signature or timestamp is missing, or whose
\* signature does not verify, is answered 400 or 401 and changes no
\* Verification, user or Transaction.
C9_BadSignatureRejected ==
    /\ [](\A s \in Slots :
            BadSignature(req[s])
            => /\ req[s].pc = "done"
               /\ req[s].res = IF req[s].signature = "absent" \/ req[s].timestamp = "absent"
                               THEN 400 ELSE 401)
    /\ [][\A s \in Slots :
            Arrives(s) /\ BadSignature(req'[s])
            => UNCHANGED <<users, verifications, transactions, transactionDetails>>]_vars

\* A forged callback was turned away while a Verification is pending.
C9_Witness ==
    \E s \in Slots :
        /\ BadSignature(req[s]) /\ req[s].signature = "forged" /\ req[s].res = 401
        /\ \E u \in Users : PendingOf(u) # {}

Intermediate(f) ==
    /\ f.kind = "smileIdCallback"
    /\ ~BadSignature(f)
    /\ f.resultCode \in intermediateSuccessCodes

\* C10: a signature-valid callback with an intermediate-success code is
\* answered 200 and changes no Verification, user or Transaction, whatever
\* its IsFinalResult flag and sub-check values.
C10_IntermediateAcknowledged ==
    /\ [](\A s \in Slots :
            Intermediate(req[s])
            => req[s].pc = "done" /\ req[s].res = 200 /\ req[s].pendingVerification = 0)
    /\ [][\A s \in Slots :
            Arrives(s) /\ Intermediate(req'[s])
            => UNCHANGED <<users, verifications, transactions, transactionDetails>>]_vars

\* An intermediate code flagged final was acknowledged while a Verification
\* is pending.
C10_Witness ==
    \E s \in Slots :
        /\ Intermediate(req[s]) /\ req[s].isFinalResult /\ req[s].res = 200
        /\ \E u \in Users : PendingOf(u) # {}

\* ---- C11: what a callback must carry to pass a Verification
\* The callback carries a final-success code and its three sub-checks passed.
FullSuccess(f) ==
    /\ f.kind = "smileIdCallback"
    /\ f.resultCode \in finalSuccessCodes
    /\ f.subChecksPassed

\* The callback carries a final-success code with a sub-check that did not
\* pass, or a failure code.
Unsuccessful(f) ==
    /\ f.kind = "smileIdCallback"
    /\ \/ f.resultCode \in finalSuccessCodes /\ ~f.subChecksPassed
       \/ f.isFailedCode

C11_Only ==
    ( \/ \E i \in DOMAIN verifications :
            verifications'[i].status = "passed" /\ verifications[i].status # "passed"
      \/ \E u \in Users : users'[u].isVerified /\ ~users[u].isVerified
      \/ transactions' # transactions )
    => \E s \in Slots : req'[s] # req[s] /\ FullSuccess(req[s])

C11_Otherwise ==
    \A s \in Slots :
        Unsuccessful(req[s]) /\ req'[s] # req[s]
        => LET f == req[s]
               g == req'[s]
           IN /\ f.pc = "findPending" /\ PendingOf(f.userID) # {}
                    => g.pc = "updateVerification" /\ g.pendingVerification \in PendingOf(f.userID)
              /\ f.pc = "updateVerification"
                    => /\ verifications'[f.pendingVerification].status = "failed"
                       /\ g.pc = "notify"
              /\ users' = users

\* C11: a Verification is set to passed, the user marked verified and
\* transactions released only by a callback with a final-success code whose
\* three sub-checks passed; a callback with a final-success code and a
\* sub-check that did not pass, or with a failure code, sets the pending
\* Verification to failed and never marks the user verified.
C11_PassOnlyOnFullSuccess == [][C11_Only /\ C11_Otherwise]_vars

\* ---- C12: the answer to a callback whose signature verifies
\* C12: every callback whose signature and timestamp are present and verify
\* is answered 200, whatever else the payload holds; 400 and 401 answer only
\* a missing or invalid signature.
C12_ValidSignatureAnswered200 ==
    \A s \in Slots :
        req[s].kind = "smileIdCallback" /\ req[s].pc = "done"
        => /\ ~BadSignature(req[s]) => req[s].res = 200
           /\ req[s].res \in {400, 401} => BadSignature(req[s])

\* ---- creation and completion of remittances, requests interleaved; the
\* operator has made an NGN account the default and no GHS account
InitRemittance ==
    /\ users = [u \in Users |-> [isVerified |-> FALSE, isKYCDone |-> FALSE]]
    /\ verifications = <<>>
    /\ transactions = <<>>
    /\ transactionDetails = <<>>
    /\ exchangeRates = {[id |-> 1, from |-> "NGN", to |-> "RMB", rate |-> 3, isActive |-> TRUE]}
    /\ bankAccounts = {[id |-> 1, currency |-> "NGN", isDefault |-> TRUE],
                       [id |-> 2, currency |-> "GHS", isDefault |-> FALSE]}
    /\ forceVerify = FALSE
    /\ now = 0
    /\ req = [s \in Slots |-> Idle]

NextRemittance ==
    \/ \E s \in Slots, u \in Users, c \in Currencies, a \in Amounts, hasPlatform \in BOOLEAN :
           createAlipayTransaction(s, u, c, a, hasPlatform)
    \/ \E s \in Slots : createTransaction(s)
    \/ \E s \in Slots : createTransactionDetails(s)
    \/ \E s \in Slots : createNotify(s)
    \/ \E s \in Slots, id \in TransactionIds : uploadAdminPaymentReceipt(s, id)
    \/ \E s \in Slots : adminReceiptUpdateDetails(s)
    \/ \E s \in Slots : adminReceiptUpdateStatus(s)
    \/ \E s \in Slots : adminReceiptNotify(s)
    \/ \E s \in Slots : Respond(s)

SpecRemittance == InitRemittance /\ [][NextRemittance]_vars

\* ---- C13: the errors createRemittance raises before it writes
\* The request was turned away for want of a default bank account or because
\* the QR code could not be stored.
CreateRefused(f) ==
    /\ f.kind = "createAlipayTransaction"
    /\ f.pc = "done"
    /\ f.res \in {"NOT_FOUND", "UNABLE_TO_COMPLETE"}

\* C13: when createRemittance returns ResourceNotFound (no default bank
\* account for the source currency) or the QR-code upload fails, the
\* Transactions and TransactionDetails are what they were before the call.
C13_RefusedCreateWritesNothing ==
    /\ [](\A s \in Slots : CreateRefused(req[s]) => req[s].transaction = 0)
    /\ [][\A s \in Slots :
            CreateRefused(req'[s]) /\ req'[s] # req[s]
            => /\ req[s].kind = "idle"
               /\ transactions' = transactions
               /\ transactionDetails' = transactionDetails]_vars

\* Both refusals have happened while a transaction exists.
C13_Witness ==
    /\ Len(transactions) > 0
    /\ \E s, t \in Slots :
          /\ CreateRefused(req[s]) /\ req[s].res = "NOT_FOUND"
          /\ CreateRefused(req[t]) /\ req[t].res = "UNABLE_TO_COMPLETE"

\* ------------------------------------------------- ExchangeRateService
\* ExchangeRateService.toggleActiveness: findById, then ...
toggleActiveness(s, exchangeRateId) ==
    /\ FreeSlot(s)
    /\ LET rows == {r \in exchangeRates : r.id = exchangeRateId}
           f == [kind |-> "toggleActiveness", pc |-> "update", res |-> "",
                 exchangeRateId |-> exchangeRateId, isActive |-> FALSE]
       IN req' = [req EXCEPT ![s] =
            IF rows = {}
            THEN [f EXCEPT !.pc = "done", !.res = "NOT_FOUND"]
            ELSE [f EXCEPT !.isActive = (CHOOSE r \in rows : TRUE).isActive]]
    /\ UNCHANGED <<db, forceVerify, now>>

\* ... updateById(exchangeRateId, {isActive: !exchangeRate.isActive}).
toggleUpdate(s) ==
    /\ req[s].kind = "toggleActiveness" /\ req[s].pc = "update"
    /\ exchangeRates' =
         {IF r.id = req[s].exchangeRateId
          THEN [r EXCEPT !.isActive = ~req[s].isActive]
          ELSE r : r \in exchangeRates}
    /\ req' = [req EXCEPT ![s].pc = "done", ![s].res = "ok"]
    /\ UNCHANGED <<users, verifications, transactions, transactionDetails,
                   bankAccounts, forceVerify, now>>

\* The ids of rate rows a caller can name; 0 is an id of no row.
ExchangeRateIds == {0} \cup {r.id : r \in exchangeRates}

\* ---- conversions and rate toggles, requests interleaved, over an NGN and a
\* GHS transaction awaiting their receipts; GHS has no rate row
InitRates ==
    /\ users = [u \in Users |-> [isVerified |-> FALSE, isKYCDone |-> FALSE]]
    /\ verifications = <<>>
    /\ transactions = <<Transaction("u1", PENDING_INPUT),
                        [Transaction("u2", PENDING_INPUT) EXCEPT !.fromCurrency = "GHS"]>>
    /\ transactionDetails = <<TransactionDetail(1, FALSE, FALSE),
                              TransactionDetail(2, FALSE, FALSE)>>
    /\ exchangeRates = {[id |-> 1, from |-> "NGN", to |-> "RMB", rate |-> 3, isActive |-> TRUE]}
    /\ bankAccounts = {[id |-> 1, currency |-> "NGN", isDefault |-> TRUE],
                       [id |-> 2, currency |-> "GHS", isDefault |-> TRUE]}
    /\ forceVerify = FALSE
    /\ now = 0
    /\ req = [s \in Slots |-> Idle]

NextRates ==
    \/ \E s \in Slots, id \in ExchangeRateIds : toggleActiveness(s, id)
    \/ \E s \in Slots : toggleUpdate(s)
    \/ \E s \in Slots, u \in Users, id \in TransactionIds : uploadUserPaymentReceipt(s, u, id)
    \/ \E s \in Slots : userReceiptConvert(s)
    \/ \E s \in Slots : userReceiptUpdateDetails(s)
    \/ \E s \in Slots : userReceiptUpdateStatus(s)
    \/ \E s \in Slots : userReceiptNotify(s)
    \/ \E s \in Slots : Respond(s)

SpecRates == InitRates /\ [][NextRates]_vars

\* ---- C14: conversion and the activeness of a rate row
ActiveRates(fromCurrency, toCurrency) ==
    {r \in exchangeRates : r.from = fromCurrency /\ r.to = toCurrency /\ r.isActive}

\* C14: for a pair with an active rate row of value v, convert returns
\* amount * v; for a pair with no active rate row, a pair whose only row has
\* been deactivated by toggleActiveness included, convert fails with
\* ResourceNotFound.
C14_ConvertUsesActiveRate ==
    [][\A s \in Slots :
          ( /\ req[s].kind = "uploadUserPaymentReceipt"
            /\ req[s].pc = "convert"
            /\ req'[s] # req[s]
            /\ req[s].transactionId \in DOMAIN transactions )
          => LET t == transactions[req[s].transactionId]
                 active == ActiveRates(t.fromCurrency, "RMB")
                 g == req'[s]
             IN /\ active # {}
                      => /\ g.pc = "updateDetails"
                         /\ \E r \in active : g.fromAmount = t.amount * r.rate
                /\ active = {}
                      => g.pc = "done" /\ g.res = "NOT_FOUND"]_vars

\* ---- C15: transactions and their details
DetailsFor(i) == {d \in DOMAIN transactionDetails : transactionDetails[d].transactionId = i}

\* Request s has written transaction i and not yet attempted its detail.
BetweenWrites(s, i) ==
    /\ req[s].kind = "createAlipayTransaction"
    /\ req[s].pc = "createDetails"
    /\ req[s].transaction = i

\* C15: each Transaction has exactly one TransactionDetail and each
\* TransactionDetail references an existing Transaction, also after a
\* createRemittance that failed between its two writes.  Stated here with
\* the one allowance the claim does not make: a Transaction whose creating
\* request is still between its two writes is not counted.
C15_EveryTransactionHasItsDetail ==
    /\ \A i \in DOMAIN transactions :
          \/ \E s \in Slots : BetweenWrites(s, i)
          \/ Cardinality(DetailsFor(i)) = 1
    /\ \A d \in DOMAIN transactionDetails :
          transactionDetails[d].transactionId \in DOMAIN transactions

\* ---- C16: the completion timestamps
\* C16: of every Transaction, completedAt and failedAt are never both set,
\* completedAt is set exactly when the status is COMPLETED, failedAt exactly
\* when it is FAILED, and both are unset while it is pending or processing.
C16_TimestampsFollowStatus ==
    \A i \in DOMAIN transactions :
        LET t == transactions[i]
        IN /\ ~(t.completedAt /\ t.failedAt)
           /\ t.completedAt <=> t.status = COMPLETED
           /\ t.failedAt <=> t.status = FAILED
           /\ t.status \in {PENDING, PROCESSING} => ~t.completedAt /\ ~t.failedAt

\* ---- C17: a submission whose provider call throws
\* C17: when the provider call made by submit throws, the Verification that
\* submit has just created is set to failed with the provider's error message
\* as its reason (a fixed text when the error carries none), the caller
\* receives an error, and the user is left with no pending Verification.
C17_ThrownSubmitCleansUp ==
    [][\A s \in Slots :
          ( /\ req[s].kind = "verifyUser"
            /\ req[s].pc = "record"
            /\ req'[s] # req[s]
            /\ req[s].outcome \in {"throws", "throwsBare"} )
          => LET f == req[s]
                 v == f.verification
             IN /\ verifications[v].status = "pending"
                /\ verifications'[v].status = "failed"
                /\ verifications'[v].reason =
                      IF f.outcome = "throws" THEN ProviderMessage
                      ELSE Reason("Failed to submit verification to Smile ID", NoCode)
                /\ \A i \in DOMAIN verifications : i # v => verifications'[i] = verifications[i]
                /\ req'[s].pc = "done" /\ req'[s].res = "UNABLE_TO_COMPLETE"
                /\ \A i \in DOMAIN verifications' :
                      ~(verifications'[i].user = f.user /\ verifications'[i].status = "pending")]_vars

\* A submission failed at the provider with an error that carries a message.
C17_Witness ==
    \E s \in Slots :
        /\ req[s].kind = "verifyUser" /\ req[s].pc = "done"
        /\ req[s].outcome = "throws"
        /\ req[s].res = "UNABLE_TO_COMPLETE"
        /\ verifications[req[s].verification].reason = ProviderMessage
        /\ PendingOf(req[s].user) = {}

\* ---- C18: cancelling a pending Verification
\* C18: cancelPendingVerification for a user with a pending Verification sets
\* exactly that Verification to failed with the reason 'Verification cancelled
\* by user' and changes nothing else; for a user with no pending Verification
\* it fails with ResourceNotFound and changes no Verification.
C18_CancelPending ==
    [][\A s \in Slots :
          /\ ( /\ req[s].kind # "cancelPendingVerification"
               /\ req'[s].kind = "cancelPendingVerification" )
             => LET u == req'[s].user IN
                /\ (PendingOf(u) = {}) <=> (req'[s].pc = "done" /\ req'[s].res = "NOT_FOUND")
                /\ PendingOf(u) # {} => /\ req'[s].pc = "update"
                                        /\ req'[s].pendingVerification \in PendingOf(u)
                /\ db' = db
          /\ ( /\ req[s].kind = "cancelPendingVerification"
               /\ req[s].pc = "update"
               /\ req'[s] # req[s] )
             => LET v == req[s].pendingVerification IN
                /\ verifications[v].user = req[s].user
                /\ verifications[v].status = "pending"
                /\ verifications'[v] =
                      [verifications[v] EXCEPT
                          !.status = "failed",
                          !.reason = Reason("Verification cancelled by user", NoCode)]
                /\ \A i \in DOMAIN verifications : i # v => verifications'[i] = verifications[i]
                /\ DOMAIN verifications' = DOMAIN verifications
                /\ UNCHANGED <<users, transactions, transactionDetails, exchangeRates, bankAccounts>>
                /\ req'[s].pc = "done" /\ req'[s].res = "ok"]_vars

\* A cancellation went through while another user's Verification was pending.
C18_Witness ==
    \E s \in Slots :
        /\ req[s].kind = "cancelPendingVerification" /\ req[s].pc = "done"
        /\ req[s].res = "ok"
        /\ verifications[req[s].pendingVerification].reason =
              Reason("Verification cancelled by user", NoCode)
        /\ \E i \in DOMAIN verifications :
              verifications[i].user # req[s].user /\ verifications[i].status = "pending"

\* ---- C19: errors of uploadUserPaymentReceipt
\* C19: uploadUserPaymentReceipt returns an error to its caller only if the
\* Transaction's status and its TransactionDetail are as they were before the
\* call: the step that returns the error writes nothing, and the document the
\* handler read at its start still equals the stored one.
C19_UserReceiptErrorLeavesNoTrace ==
    [][\A s \in Slots :
          ( /\ req'[s].kind = "uploadUserPaymentReceipt"
            /\ req'[s].pc = "done"
            /\ req'[s].res # "ok"
            /\ req'[s] # req[s] )
          => /\ db' = db
             /\ LET id == req'[s].transactionId
                    transaction == req'[s].transaction
                IN (transaction # <<>> /\ id \in DOMAIN transactions)
                   => /\ transactions[id].status = transaction[1].status
                      /\ (IF detailsOf(id) = 0 THEN {}
                          ELSE {transactionDetails[detailsOf(id)]}) = transaction[2]]_vars

\* ---- C20: notification failures of create and of the operator's receipt
\* C20: createAlipayTransaction and uploadAdminPaymentReceipt return success
\* when their notification step fails (the send of the 'payment initiated' /
\* 'payment completed' message or the fetch of the receipt attachment), and
\* the created Transaction with its detail, respectively the completed status,
\* stay stored.
C20_NotificationFailureAbsorbed ==
    [][\A s \in Slots :
          ( /\ req[s].kind \in {"createAlipayTransaction", "uploadAdminPaymentReceipt"}
            /\ req[s].pc = "notify"
            /\ req'[s] # req[s]
            /\ ~req'[s].notified )
          => /\ req'[s].pc = "done" /\ req'[s].res = "ok"
             /\ db' = db
             /\ req[s].kind = "createAlipayTransaction"
                => /\ req[s].transaction \in DOMAIN transactions'
                   /\ DetailsFor(req[s].transaction) # {}
             /\ ( /\ req[s].kind = "uploadAdminPaymentReceipt"
                  /\ req[s].transactionId \in DOMAIN transactions )
                => transactions'[req[s].transactionId].status = COMPLETED]_vars

\* Both operations have returned success after a failed notification.
C20_Witness ==
    \E s, r \in Slots :
        /\ req[s].kind = "createAlipayTransaction" /\ req[s].pc = "done"
        /\ req[s].res = "ok" /\ ~req[s].notified
        /\ req[s].transaction \in DOMAIN transactions
        /\ req[r].kind = "uploadAdminPaymentReceipt" /\ req[r].pc = "done"
        /\ req[r].res = "ok" /\ ~req[r].notified
        /\ req[r].transactionId \in DOMAIN transactions
        /\ transactions[req[r].transactionId].status = COMPLETED

\* ------------------------------------------------- NotificationService
\* Bound on the number of configured admin addresses per channel.
MaxRecipients == 2

\* ADMIN_EMAILS split at commas is never empty; ADMIN_PHONE_NUMBERS split at
\* commas is a list whose entries may be empty strings (FALSE), which the
\* loop skips.
AdminPhoneLists == UNION {[1..n -> BOOLEAN] : n \in 0..MaxRecipients}

\* The position after recipient i of the email loop.
AfterEmail(f) ==
    IF f.i < f.emails THEN [f EXCEPT !.i = f.i + 1]
    ELSE IF Len(f.phones) = 0 THEN [f EXCEPT !.pc = "done", !.res = "ok"]
    ELSE [f EXCEPT !.pc = "phones", !.i = 1]

\* The position after recipient i of the WhatsApp loop.
AfterPhone(f) ==
    IF f.i < Len(f.phones) THEN [f EXCEPT !.i = f.i + 1]
    ELSE [f EXCEPT !.pc = "done", !.res = "ok"]

\* Lines 129-130.
notifyAdmins(s, emails, phones) ==
    /\ FreeSlot(s)
    /\ req' = [req EXCEPT ![s] =
         [kind |-> "notifyAdmins", pc |-> "emails", res |-> "", emails |-> emails,
          phones |-> phones, i |-> 1, attempted |-> {}, failed |-> {}]]
    /\ UNCHANGED <<db, forceVerify, now>>

\* The email loop with a failed send passed on to the caller.
notifyAdminsEmailFatal(s) ==
    /\ req[s].kind = "notifyAdmins" /\ req[s].pc = "emails"
    /\ \E sent \in BOOLEAN :
         LET f == [req[s] EXCEPT !.attempted = @ \cup {<<"email", req[s].i>>},
                                 !.failed = IF sent THEN @ ELSE @ \cup {<<"email", req[s].i>>}]
         IN req' = [req EXCEPT ![s] =
              IF sent THEN AfterEmail(f)
              ELSE [f EXCEPT !.pc = "done", !.res = "INTERNAL_ERROR"]]
    /\ UNCHANGED <<db, forceVerify, now>>

\* Lines 133-140: one turn of the email loop; a failed send is caught and
\* logged.
notifyAdminsEmail(s) ==
    /\ req[s].kind = "notifyAdmins" /\ req[s].pc = "emails"
    /\ \E sent \in BOOLEAN :
         LET f == [req[s] EXCEPT !.attempted = @ \cup {<<"email", req[s].i>>},
                                 !.failed = IF sent THEN @ ELSE @ \cup {<<"email", req[s].i>>}]
         IN req' = [req EXCEPT ![s] = AfterEmail(f)]
    /\ UNCHANGED <<db, forceVerify, now>>

\* Lines 143-171: one turn of the WhatsApp loop; an empty entry is skipped, a
\* failed text message is caught and logged, and each media message has a
\* try of its own inside.
notifyAdminsPhone(s) ==
    /\ req[s].kind = "notifyAdmins" /\ req[s].pc = "phones"
    /\ \E sent \in BOOLEAN :
         LET f == IF req[s].phones[req[s].i]
                  THEN [req[s] EXCEPT
                           !.attempted = @ \cup {<<"whatsapp", req[s].i>>},
                           !.failed = IF sent THEN @ ELSE @ \cup {<<"whatsapp", req[s].i>>}]
                  ELSE req[s]
         IN req' = [req EXCEPT ![s] = AfterPhone(f)]
    /\ UNCHANGED <<db, forceVerify, now>>

\* Lines 59-62: sendNotification for a user with or without a phone number.
sendNotification(s, hasPhone) ==
    /\ FreeSlot(s)
    /\ req' = [req EXCEPT ![s] =
         [kind |-> "sendNotification", pc |-> "email", res |-> "", hasPhone |-> hasPhone,
          attempted |-> {}, results |-> [email |-> FALSE, whatsapp |-> FALSE]]]
    /\ UNCHANGED <<db, forceVerify, now>>

\* Lines 65-71.
sendNotificationEmail(s) ==
    /\ req[s].kind = "sendNotification" /\ req[s].pc = "email"
    /\ \E sent \in BOOLEAN :
         req' = [req EXCEPT ![s].pc = "whatsapp",
                            ![s].attempted = @ \cup {"email"},
                            ![s].results.email = sent]
    /\ UNCHANGED <<db, forceVerify, now>>

\* Lines 74-104.
sendNotificationWhatsApp(s) ==
    /\ req[s].kind = "sendNotification" /\ req[s].pc = "whatsapp"
    /\ \E sent \in BOOLEAN :
         req' = [req EXCEPT ![s].pc = "done", ![s].res = "ok",
                            ![s].attempted = IF req[s].hasPhone THEN @ \cup {"whatsapp"} ELSE @,
                            ![s].results.whatsapp = sent /\ req[s].hasPhone]
    /\ UNCHANGED <<db, forceVerify, now>>

\* ---- notifications in flight, interleaved
NextNotify ==
    \/ \E s \in Slots, emails \in 1..MaxRecipients, phones \in AdminPhoneLists :
          notifyAdmins(s, emails, phones)
    \/ \E s \in Slots : notifyAdminsEmail(s)
    \/ \E s \in Slots : notifyAdminsPhone(s)
    \/ \E s \in Slots, hasPhone \in BOOLEAN : sendNotification(s, hasPhone)
    \/ \E s \in Slots : sendNotificationEmail(s)
    \/ \E s \in Slots : sendNotificationWhatsApp(s)
    \/ \E s \in Slots : Respond(s)

SpecNotify == Init /\ [][NextNotify]_vars

\* The recipients notifyAdmins has to try: every email entry and every
\* non-empty phone entry.
AdminRecipients(f) ==
    {<<"email", i>> : i \in 1..f.emails}
        \cup {<<"whatsapp", i>> : i \in {j \in 1..Len(f.phones) : f.phones[j]}}

\* ---- C21: the fan-out never stops at a failed recipient
\* C21: notifyAdmins attempts delivery to every configured admin email
\* address and every configured admin phone number whatever failed before,
\* and never raises an error; sendNotification attempts the email and, for a
\* user with a phone number, the chat message, whichever of the two fails.
C21_FanOutReachesEveryone ==
    \A s \in Slots :
        /\ req[s].kind \in {"notifyAdmins", "sendNotification"} /\ req[s].pc = "done"
              => req[s].res = "ok"
        /\ req[s].kind = "notifyAdmins" /\ req[s].pc = "done"
              => req[s].attempted = AdminRecipients(req[s])
        /\ req[s].kind = "sendNotification" /\ req[s].pc = "done"
              => req[s].attempted =
                    {"email"} \cup (IF req[s].hasPhone THEN {"whatsapp"} ELSE {})

\* A fan-out whose first email and first phone failed reached the second of
\* each, and a notification whose email failed delivered the chat message.
C21_Witness ==
    \E s, r \in Slots :
        /\ req[s].kind = "notifyAdmins" /\ req[s].pc = "done"
        /\ {<<"email", 1>>, <<"whatsapp", 1>>} \subseteq req[s].failed
        /\ {<<"email", 2>>, <<"whatsapp", 2>>} \subseteq req[s].attempted \ req[s].failed
        /\ req[r].kind = "sendNotification" /\ req[r].pc = "done"
        /\ ~req[r].results.email /\ req[r].results.whatsapp

\* --------------------------------------------- BankAccountDetailsService
\* Bound on the ids handed out to bank-account documents.
MaxBankAccounts == 3

BankAccountIds == 0..MaxBankAccounts

findByIdBankAccount(id) == {b \in bankAccounts : b.id = id}

\* Model.findByIdAndUpdate(id, {isDefault}) with a session that has no
\* transaction: the write is applied on its own.
updateByIdBankAccount(id, isDefault) ==
    {IF b.id = id THEN [b EXCEPT !.isDefault = isDefault] ELSE b : b \in bankAccounts}

\* Line 27: count({currency}).
createAccountDetails(s, currency) ==
    /\ FreeSlot(s)
    /\ \A b \in bankAccounts : b.id < MaxBankAccounts
    /\ req' = [req EXCEPT ![s] =
         [kind |-> "createAccountDetails", pc |-> "create", res |-> "",
          currency |-> currency,
          currencyAccountDetailsCount |->
              Cardinality({b \in bankAccounts : b.currency = currency})]]
    /\ UNCHANGED <<db, forceVerify, now>>

\* Lines 28-31: create with isDefault: count === 0.
createAccountCreate(s) ==
    /\ req[s].kind = "createAccountDetails" /\ req[s].pc = "create"
    /\ \A b \in bankAccounts : b.id < MaxBankAccounts
    /\ LET id == 1 + (CHOOSE m \in BankAccountIds :
                         /\ m \in {b.id : b \in bankAccounts} \cup {0}
                         /\ \A b \in bankAccounts : b.id <= m)
       IN bankAccounts' = bankAccounts \cup
            {[id |-> id, currency |-> req[s].currency,
              isDefault |-> (req[s].currencyAccountDetailsCount = 0)]}
    /\ req' = [req EXCEPT ![s].pc = "done", ![s].res = "ok"]
    /\ UNCHANGED <<users, verifications, transactions, transactionDetails,
                   exchangeRates, forceVerify, now>>

\* Lines 46-52: findById and the two refusals.
makeDefaultAccountDetails(s, id) ==
    /\ FreeSlot(s)
    /\ LET found == findByIdBankAccount(id)
           f == [kind |-> "makeDefaultAccountDetails", pc |-> "findCurrent", res |-> "",
                 id |-> id, currency |-> "", currentDefault |-> 0]
       IN req' = [req EXCEPT ![s] =
            IF found = {} THEN [f EXCEPT !.pc = "done", !.res = "NOT_FOUND"]
            ELSE LET accountDetails == CHOOSE b \in found : TRUE
                 IN IF accountDetails.isDefault
                    THEN [f EXCEPT !.pc = "done", !.res = "ALREADY_EXISTS"]
                    ELSE [f EXCEPT !.currency = accountDetails.currency]]
    /\ UNCHANGED <<db, forceVerify, now>>

\* Lines 53-54: findOne({currency, isDefault: true}); 0 stands for null.
makeDefaultFindCurrent(s) ==
    /\ req[s].kind = "makeDefaultAccountDetails" /\ req[s].pc = "findCurrent"
    /\ LET S == {b.id : b \in {c \in bankAccounts :
                                  c.currency = req[s].currency /\ c.isDefault}}
       IN req' = [req EXCEPT ![s].pc = IF S = {} THEN "set" ELSE "unset",
                             ![s].currentDefault = IF S = {} THEN 0 ELSE Min(S)]
    /\ UNCHANGED <<db, forceVerify, now>>

\* Lines 55-57.
makeDefaultUnset(s) ==
    /\ req[s].kind = "makeDefaultAccountDetails" /\ req[s].pc = "unset"
    /\ bankAccounts' = updateByIdBankAccount(req[s].currentDefault, FALSE)
    /\ req' = [req EXCEPT ![s].pc = "set"]
    /\ UNCHANGED <<users, verifications, transactions, transactionDetails,
                   exchangeRates, forceVerify, now>>

\* Lines 58-61.
makeDefaultSet(s) ==
    /\ req[s].kind = "makeDefaultAccountDetails" /\ req[s].pc = "set"
    /\ bankAccounts' = updateByIdBankAccount(req[s].id, TRUE)
    /\ req' = [req EXCEPT ![s].pc = "done", ![s].res = "ok"]
    /\ UNCHANGED <<users, verifications, transactions, transactionDetails,
                   exchangeRates, forceVerify, now>>

\* Lines 65-68.
deleteAccountDetails(s, id) ==
    /\ FreeSlot(s)
    /\ LET found == findByIdBankAccount(id)
           f == [kind |-> "deleteAccountDetails", pc |-> "count", res |-> "",
                 id |-> id, currency |-> ""]
       IN req' = [req EXCEPT ![s] =
            IF found = {} THEN [f EXCEPT !.pc = "done", !.res = "NOT_FOUND"]
            ELSE [f EXCEPT !.currency = (CHOOSE b \in found : TRUE).currency]]
    /\ UNCHANGED <<db, forceVerify, now>>

\* Lines 69-72.
deleteCount(s) ==
    /\ req[s].kind = "deleteAccountDetails" /\ req[s].pc = "count"
    /\ req' = [req EXCEPT ![s] =
         IF Cardinality({b \in bankAccounts : b.currency = req[s].currency}) <= 1
         THEN [req[s] EXCEPT !.pc = "done", !.res = "UNABLE_TO_COMPLETE"]
         ELSE [req[s] EXCEPT !.pc = "delete"]]
    /\ UNCHANGED <<db, forceVerify, now>>

\* Line 73.
deleteById(s) ==
    /\ req[s].kind = "deleteAccountDetails" /\ req[s].pc = "delete"
    /\ bankAccounts' = {b \in bankAccounts : b.id # req[s].id}
    /\ req' = [req EXCEPT ![s].pc = "done", ![s].res = "ok"]
    /\ UNCHANGED <<users, verifications, transactions, transactionDetails,
                   exchangeRates, forceVerify, now>>

\* ---- bank-account requests of the operators, interleaved
InitBank == Init /\ forceVerify = FALSE

NextBank ==
    \/ \E s \in Slots, currency \in Currencies : createAccountDetails(s, currency)
    \/ \E s \in Slots : createAccountCreate(s)
    \/ \E s \in Slots, id \in BankAccountIds : makeDefaultAccountDetails(s, id)
    \/ \E s \in Slots : makeDefaultFindCurrent(s)
    \/ \E s \in Slots : makeDefaultUnset(s)
    \/ \E s \in Slots : makeDefaultSet(s)
    \/ \E s \in Slots, id \in BankAccountIds : deleteAccountDetails(s, id)
    \/ \E s \in Slots : deleteCount(s)
    \/ \E s \in Slots : deleteById(s)
    \/ \E s \in Slots : Respond(s)

SpecBank == InitBank /\ [][NextBank]_vars

Defaults(currency) == {b \in bankAccounts : b.currency = currency /\ b.isDefault}

\* ---- C22: one default bank account per currency
\* C22: in every state, each currency that has at least one bank-account
\* record has exactly one record that is the default.
C22_ExactlyOneDefault ==
    \A currency \in Currencies :
        (\E b \in bankAccounts : b.currency = currency)
            => Cardinality(Defaults(currency)) = 1

\* ---- C23: callbacks that are not intermediate terminate the pending record
\* C23: a callback with a confirmed signature whose result code is not an
\* intermediate-success code is never acknowledged with 200 while the pending
\* Verification it found for the user is still pending, whatever its
\* IsFinalResult flag.
C23_NonIntermediateTerminates ==
    \A s \in Slots :
        ( /\ req[s].kind = "smileIdCallback"
          /\ req[s].pc = "done"
          /\ req[s].res = 200
          /\ req[s].userID # "absent"
          /\ req[s].resultCode \notin intermediateSuccessCodes )
        => /\ req[s].pendingVerification # 0
              => verifications[req[s].pendingVerification].status # "pending"
           /\ req[s].pendingVerification = 0 => PendingOf(req[s].userID) = {}

\* ---- C24: a submission rejected for its images
\* C24: a verifyUser call that is rejected with payloadIncorrect leaves every
\* Verification as it was: the rejection is reached without a write, and no
\* stale pending Verification has been expired by the rejected call.
C24_RejectedSubmitWritesNothing ==
    [][\A s \in Slots :
          ( /\ req'[s].kind = "verifyUser"
            /\ req'[s].pc = "done"
            /\ req'[s].res = "PAYLOAD_INCORRECT"
            /\ req'[s] # req[s] )
          => /\ verifications' = verifications
             /\ req'[s].existingPendingVerification # 0
                   => verifications'[req'[s].existingPendingVerification].status = "pending"]_vars

\* ---- C25: a Verification leaves pending once
\* C25: under any interleaving of callbacks, cancellations and submissions, a
\* Verification that is passed is never changed to failed, and a Verification
\* that was set to failed by a cancellation or by the staleness override is
\* never changed to passed.
C25_TerminalOnce ==
    [][\A i \in DOMAIN verifications :
          /\ verifications[i].status = "passed"
                => verifications'[i].status = "passed"
          /\ ( /\ verifications[i].status = "failed"
               /\ verifications[i].reason \in
                     {Reason("Verification cancelled by user", NoCode),
                      Reason("Verification expired - please try again", NoCode)} )
                => verifications'[i].status = "failed"]_vars

\* ---- callbacks for users whose earlier Verifications have failed
\* The reasons a failed Verification can carry: the two fixed texts of the
\* cancellation and of the staleness override, a callback's failure reason,
\* and error.message of a failed provider call, a text of the provider's
\* that may quote a result code.
FailedReasons ==
    {Reason("Verification cancelled by user", NoCode),
     Reason("Images unusable - Anti-spoof check failed or poor image quality", NoCode),
     ProviderMessage,
     Reason("<error.message>", <<1, 0, 1, 2>>),
     Reason("<error.message>", <<0, 8, 1, 0>>)}

\* Callbacks of a completed provider job that passed every sub-check.
HealPayloads ==
    {p \in Payloads :
        /\ p.signature = "genuine" /\ p.timestamp = "present"
        /\ p.ResultCode \in {<<0, 8, 1, 0>>, <<0, 9, 1, 1>>}
        /\ p.IsFinalResult
        /\ p.Actions = [Selfie_Check |-> "Passed", Register_Selfie |-> "Passed",
                        Verify_ID_Number |-> "Verified"]
        /\ p.user_id \in Users}

\* No Verification is pending; every user has failed once or twice.
InitHeal ==
    /\ users = [u \in Users |-> [isVerified |-> FALSE, isKYCDone |-> FALSE]]
    /\ \E n \in 1..MaxVerifications :
         verifications \in [1..n -> [user : Users, status : {"failed"},
                                     reason : FailedReasons, createdAt : {0},
                                     jobId : {0}]]
    /\ transactions = <<Transaction("u1", AWAITING_KYC_VERIFICATION),
                        Transaction("u2", AWAITING_KYC_VERIFICATION)>>
    /\ transactionDetails = <<TransactionDetail(1, TRUE, FALSE),
                              TransactionDetail(2, TRUE, FALSE)>>
    /\ exchangeRates = {[id |-> 1, from |-> "NGN", to |-> "RMB", rate |-> 3, isActive |-> TRUE]}
    /\ bankAccounts = {[id |-> 1, currency |-> "NGN", isDefault |-> TRUE],
                       [id |-> 2, currency |-> "GHS", isDefault |-> TRUE]}
    /\ forceVerify = FALSE
    /\ now = 0
    /\ req = [s \in Slots |-> Idle]

NextHeal ==
    \/ Quiet /\ \E p \in HealPayloads : smileIdCallback(1, p)
    \/ \E s \in Slots : callbackFindPending(s)
    \/ \E s \in Slots : callbackFindFailed(s)
    \/ \E s \in Slots : callbackUpdateVerification(s)
    \/ \E s \in Slots : callbackUpdateUser(s)
    \/ \E s \in Slots : callbackUpdateMany(s)
    \/ \E s \in Slots : callbackNotify(s)
    \/ \E s \in Slots : Respond(s)

SpecHeal == InitHeal /\ [][NextHeal]_vars

\* The failed Verifications of a user whose reason quotes an
\* intermediate-success code.
Healable(u) ==
    {i \in DOMAIN verifications :
        /\ verifications[i].user = u
        /\ verifications[i].status = "failed"
        /\ \E code \in intermediateSuccessCodes : includes(verifications[i].reason, code)}

\* ---- C26: the compensating lookup
\* C26: with no pending Verification for the user, a qualifying final-success
\* callback changes a failed Verification to passed only if the record's
\* reason quotes an intermediate-success code, and when the user has such a
\* record the lookup picks one of them as the record to heal.
C26_HealsOnlyIntermediate ==
    [][\A s \in Slots :
          /\ \A i \in DOMAIN verifications :
                ( /\ req[s].kind = "smileIdCallback"
                  /\ req[s].pc = "updateVerification"
                  /\ req'[s] # req[s]
                  /\ verifications[i].status = "failed"
                  /\ verifications'[i].status = "passed" )
                => i \in Healable(req[s].userID)
          /\ ( /\ req[s].kind = "smileIdCallback"
               /\ req[s].pc = "findFailed"
               /\ req'[s] # req[s]
               /\ Healable(req[s].userID) # {} )
             => /\ req'[s].pc = "updateVerification"
                /\ req'[s].pendingVerification \in Healable(req[s].userID)]_vars

\* ---- callbacks that name the job they report
JobIds == 1..MaxVerifications

\* Callbacks of a finished provider job, with PartnerParams.job_id.
LatePayloads ==
    [signature : {"genuine"},
     timestamp : {"present"},
     ResultCode : {<<0, 8, 1, 0>>, <<0, 9, 1, 1>>},
     IsFinalResult : {TRUE},
     Actions : {[Selfie_Check |-> "Passed", Register_Selfie |-> "Passed",
                 Verify_ID_Number |-> "Verified"]},
     user_id : Users,
     job_id : JobIds]

\* The provider reports a job it was given: PartnerParams are the job id and
\* the user id that the submission sent (smile-id service, partner_params).
Submitted(p) ==
    \E i \in DOMAIN verifications :
        verifications[i].jobId = p.job_id /\ verifications[i].user = p.user_id

InitLate == InitCallback /\ forceVerify = FALSE

NextLate ==
    \/ Quiet /\ \E p \in LatePayloads : Submitted(p) /\ smileIdCallback(1, p)
    \/ \E s \in Slots : callbackFindPending(s)
    \/ \E s \in Slots : callbackFindFailed(s)
    \/ \E s \in Slots : callbackUpdateVerification(s)
    \/ \E s \in Slots : callbackUpdateUser(s)
    \/ \E s \in Slots : callbackUpdateMany(s)
    \/ \E s \in Slots : callbackNotify(s)
    \/ Quiet /\ \E u \in Users : verifyUser(1, u, TRUE, "wellformed")
    \/ \E s \in Slots : verifyUserFindPending(s)
    \/ \E s \in Slots : verifyUserCreate(s)
    \/ \E s \in Slots : verifyUserSubmit(s)
    \/ \E s \in Slots : verifyUserRecord(s)
    \/ Quiet /\ \E u \in Users : cancelPendingVerification(1, u)
    \/ \E s \in Slots : cancelUpdate(s)
    \/ \E s \in Slots : Respond(s)

SpecLate == InitLate /\ [][NextLate]_vars

\* ---- C27: a callback touches the Verification of its own job
\* C27: a callback changes only the Verification that was created for the
\* provider job it reports; a late callback for a job whose Verification was
\* cancelled never terminates a newer pending Verification of the same user.
C27_CallbackTouchesOwnJob ==
    [][\A s \in Slots : \A i \in DOMAIN verifications :
          ( /\ req[s].kind = "smileIdCallback"
            /\ req[s].pc = "updateVerification"
            /\ req'[s] # req[s]
            /\ verifications'[i] # verifications[i] )
          => verifications[i].jobId = req[s].jobID]_vars

\* ---- a receipt upload and the user's callback, interleaved
\* Every user has submitted an identity check that is still pending and has
\* a transaction waiting for the payment receipt.
InitKyc ==
    /\ users = [u \in Users |-> [isVerified |-> FALSE, isKYCDone |-> FALSE]]
    /\ verifications = <<[user |-> "u1", status |-> "pending", reason |-> NoReason,
                          createdAt |-> 0, jobId |-> 1],
                         [user |-> "u2", status |-> "pending", reason |-> NoReason,
                          createdAt |-> 0, jobId |-> 2]>>
    /\ transactions = <<Transaction("u1", PENDING_INPUT), Transaction("u2", PENDING_INPUT)>>
    /\ transactionDetails = <<TransactionDetail(1, FALSE, FALSE),
                              TransactionDetail(2, FALSE, FALSE)>>
    /\ exchangeRates = {[id |-> 1, from |-> "NGN", to |-> "RMB", rate |-> 3, isActive |-> TRUE]}
    /\ bankAccounts = {[id |-> 1, currency |-> "NGN", isDefault |-> TRUE],
                       [id |-> 2, currency |-> "GHS", isDefault |-> TRUE]}
    /\ forceVerify = FALSE
    /\ now = 0
    /\ req = [s \in Slots |-> Idle]

NextKyc ==
    \/ \E s \in Slots, p \in ReleasePayloads : smileIdCallback(s, p)
    \/ \E s \in Slots : callbackFindPending(s)
    \/ \E s \in Slots : callbackFindFailed(s)
    \/ \E s \in Slots : callbackUpdateVerification(s)
    \/ \E s \in Slots : callbackUpdateUser(s)
    \/ \E s \in Slots : callbackUpdateMany(s)
    \/ \E s \in Slots : callbackNotify(s)
    \/ \E s \in Slots, i \in DOMAIN transactions :
          uploadUserPaymentReceipt(s, transactions[i].user, i)
    \/ \E s \in Slots : userReceiptConvert(s)
    \/ \E s \in Slots : userReceiptUpdateDetails(s)
    \/ \E s \in Slots : userReceiptUpdateStatus(s)
    \/ \E s \in Slots : userReceiptNotify(s)
    \/ \E s \in Slots : Respond(s)

SpecKyc == InitKyc /\ [][NextKyc]_vars

HasPassed(u) ==
    \E i \in DOMAIN verifications :
        verifications[i].user = u /\ verifications[i].status = "passed"

\* ---- C28: nothing waits for an identity check that has passed
\* C28: whenever no request is in flight, no Transaction of a user who has a
\* passed Verification is in AWAITING_KYC_VERIFICATION.
C28_NoneLeftWaiting ==
    (\A s \in Slots : ~InFlight(s))
        => \A i \in DOMAIN transactions :
              HasPassed(transactions[i].user)
                 => transactions[i].status # AWAITING_KYC_VERIFICATION

\* ---- callbacks whose awaited writes can be rejected by the database
\* DBService.executeWithErrorHandling rethrows a rejected operation; in
\* smileIdCallback the error reaches the catch of lines 258-262, which
\* answers 200 and undoes nothing.
callbackUpdateVerificationFails(s) ==
    /\ req[s].kind = "smileIdCallback" /\ req[s].pc = "updateVerification"
    /\ req' = [req EXCEPT ![s].pc = "done", ![s].res = 200]
    /\ UNCHANGED <<db, forceVerify, now>>

callbackUpdateUserFails(s) ==
    /\ req[s].kind = "smileIdCallback" /\ req[s].pc = "updateUser"
    /\ req' = [req EXCEPT ![s].pc = "done", ![s].res = 200]
    /\ UNCHANGED <<db, forceVerify, now>>

callbackUpdateManyFails(s) ==
    /\ req[s].kind = "smileIdCallback" /\ req[s].pc = "updateMany"
    /\ req' = [req EXCEPT ![s].pc = "done", ![s].res = 200]
    /\ UNCHANGED <<db, forceVerify, now>>

\* Callbacks with a confirmed signature.
SignedPayloads ==
    {p \in Payloads : p.signature = "genuine" /\ p.timestamp = "present" /\ p.user_id \in Users}

\* Every user has a pending Verification and transactions in several
\* statuses.
InitFault ==
    /\ users = [u \in Users |-> [isVerified |-> FALSE, isKYCDone |-> FALSE]]
    /\ verifications = <<[user |-> "u1", status |-> "pending", reason |-> NoReason,
                          createdAt |-> 0, jobId |-> 1],
                         [user |-> "u2", status |-> "pending", reason |-> NoReason,
                          createdAt |-> 0, jobId |-> 2]>>
    /\ transactions = <<Transaction("u1", AWAITING_KYC_VERIFICATION),
                        Transaction("u2", AWAITING_KYC_VERIFICATION),
                        Transaction("u1", PENDING_INPUT)>>
    /\ transactionDetails = <<TransactionDetail(1, TRUE, FALSE),
                              TransactionDetail(2, TRUE, FALSE),
                              TransactionDetail(3, FALSE, FALSE)>>
    /\ exchangeRates = {[id |-> 1, from |-> "NGN", to |-> "RMB", rate |-> 3, isActive |-> TRUE]}
    /\ bankAccounts = {[id |-> 1, currency |-> "NGN", isDefault |-> TRUE],
                       [id |-> 2, currency |-> "GHS", isDefault |-> TRUE]}
    /\ forceVerify = FALSE
    /\ now = 0
    /\ req = [s \in Slots |-> Idle]

NextFault ==
    \/ Quiet /\ \E p \in SignedPayloads : smileIdCallback(1, p)
    \/ \E s \in Slots : callbackFindPending(s)
    \/ \E s \in Slots : callbackFindFailed(s)
    \/ \E s \in Slots : callbackUpdateVerification(s)
    \/ \E s \in Slots : callbackUpdateVerificationFails(s)
    \/ \E s \in Slots : callbackUpdateUser(s)
    \/ \E s \in Slots : callbackUpdateUserFails(s)
    \/ \E s \in Slots : callbackUpdateMany(s)
    \/ \E s \in Slots : callbackUpdateManyFails(s)
    \/ \E s \in Slots : callbackNotify(s)
    \/ \E s \in Slots : Respond(s)

SpecFault == InitFault /\ [][NextFault]_vars

\* ---- C29: the three effects of a final success come together
\* C29: when the processing of a qualifying final-success callback has ended,
\* with or without an internal error, the Verification it targeted is passed
\* only if the user is marked verified and none of the user's transactions
\* is left in AWAITING_KYC_VERIFICATION.
C29_AllOrNothing ==
    \A s \in Slots :
        ( /\ req[s].kind = "smileIdCallback"
          /\ req[s].pc = "done"
          /\ req[s].isVerified
          /\ req[s].pendingVerification # 0
          /\ verifications[req[s].pendingVerification].status = "passed" )
        => /\ users[req[s].userID].isVerified
           /\ users[req[s].userID].isKYCDone
           /\ \A i \in DOMAIN transactions :
                 transactions[i].user = req[s].userID
                    => transactions[i].status # AWAITING_KYC_VERIFICATION

\* ---- receipt uploads of users who confirm their email address
NextEmail ==
    \/ \E u \in Users : verifyEmail(u)
    \/ \E s \in Slots, i \in DOMAIN transactions :
          uploadUserPaymentReceipt(s, transactions[i].user, i)
    \/ \E s \in Slots : userReceiptConvert(s)
    \/ \E s \in Slots : userReceiptUpdateDetails(s)
    \/ \E s \in Slots : userReceiptUpdateStatus(s)
    \/ \E s \in Slots : userReceiptNotify(s)
    \/ \E s \in Slots : Respond(s)

SpecEmail == InitKyc /\ [][NextEmail]_vars

\* ---- C30: AWAITING_CONFIRMATION needs a passed identity check
\* C30: a Transaction is moved to AWAITING_CONFIRMATION only when its owning
\* user has a passed Verification; confirming the email address alone never
\* lets uploadUserPaymentReceipt move it there.
C30_ConfirmationNeedsPassed ==
    [][\A i \in DOMAIN transactions :
          ( /\ transactions[i].status # AWAITING_CONFIRMATION
            /\ transactions'[i].status = AWAITING_CONFIRMATION )
          => HasPassed(transactions[i].user)]_vars

====
